---- MODULE Spec2Model ----
(***************************************************************************)
(* EcoLogic simulator: template registry, graph builder, shock generator,  *)
(* propagation engine, timeframe scaler, aggregator and the simulate       *)
(* request handler.                                                        *)
(*                                                                         *)
(* Numbers.  The program computes with IEEE doubles.  Here every quantity  *)
(* is a fixed-point integer:                                               *)
(*   - node deltas, shock deltas, contributions, totals and epsilon are    *)
(*     multiples of 1/DeltaScale (0.5 kg/week is 50000);                   *)
(*   - edge strength and confidence, decayFactor, adoptionRate and         *)
(*     assumption values are thousandths (0.95 is 950).                    *)
(* A product is rounded toward zero to the resolution of its result.       *)
(* A JavaScript Map is a sequence of [k, v] entries in insertion order.    *)
(***************************************************************************)
EXTENDS Integers, Sequences, FiniteSets, TLC

VARIABLES
    \* ---- propagation engine (propagate.ts, one call of propagate) ----
    graph,          \* the input graph {nodes, edges}
    shocks,         \* the input shock list
    cfg,            \* the effective config {maxDepth, epsilon, decayFactor}
    nodeMap,        \* Map id -> node copy with delta and order
    currentDeltas,  \* Map id -> delta received in the previous step
    nodeDeltas,     \* Map id -> cumulative delta
    nodeOrders,     \* Map id -> order
    steps,          \* the step trace
    depth,          \* the loop variable of the propagation loop
    pc,             \* position of the call: "start", "loop", "done"
    firstResult,    \* <<>> or <<what an earlier call on the same arguments returned>>
    \* ---- timeframe scaler and aggregator (graphBuilder.ts, aggregators.ts) ----
    resultGraph,    \* propagationResult.graph, the argument of the scaler
    scaledBy,       \* 0, or the k of the call scaleGraphByTimeframe(resultGraph, k)
    finalGraph,     \* the graph handed to the aggregator
    totals,         \* <<>> or <<what calculateTotals(finalGraph) returned>>
    resultOrders,   \* propagationResult.nodeOrders
    effects,        \* <<>> or <<the three effect lists>>
    topDrivers,     \* <<>> or <<what identifyTopDrivers returned>>
    apc,            \* "propagated", "final", "aggregated", "extracted"
    \* ---- simulate request handler (server) ----
    registry,       \* graphTemplates[kind].defaultAssumptions, the live objects
    aiConfig,       \* getAIConfig() is non-null (an API key is configured)
    requests,       \* the requests received so far, in arrival order
    \* ---- graph builder on the loaded templates (graphBuilder.ts) ----
    templates,      \* graphTemplates[kind].nodes and .edges, the live objects
    builds          \* the calls of buildGraph so far: scenario and returned graph

engineVars == <<graph, shocks, cfg, nodeMap, currentDeltas, nodeDeltas,
                nodeOrders, steps, depth, pc>>

aggVars == <<resultGraph, resultOrders, scaledBy, finalGraph, totals, effects, topDrivers,
             apc>>

simVars == <<registry, aiConfig, requests>>

buildVars == <<templates, builds>>

vars == <<engineVars, firstResult, aggVars, simVars, buildVars>>

----------------------------------------------------------------------------
(* Numbers *)

DeltaScale == 100000

Milli == 1000

Abs(x) == IF x < 0 THEN -x ELSE x

\* JavaScript division/multiplication results rounded toward zero.
TruncDiv(a, b) == IF a < 0 THEN -((-a) \div b) ELSE a \div b

\* x (any unit) times m (thousandths), in x's unit.
MulMilli(x, m) == TruncDiv(x * m, Milli)

\* F applied to the value of x, x evaluated once.
Strict(x, F(_)) == CHOOSE r \in {F(v) : v \in {x}} : TRUE

\* for (const x of xs) acc = Op(acc, x)
FoldLeft(Op(_, _), acc, xs) ==
    LET Over(ys) ==
            LET RECURSIVE Go(_, _)
                Go(a, i) == IF i > Len(ys) THEN a
                            ELSE Strict(Op(a, ys[i]), LAMBDA v : Go(v, i + 1))
            IN  Go(acc, 1)
    IN  Strict(xs, Over)

SeqSum(s) == FoldLeft(LAMBDA a, x : a + x, 0, s)


----------------------------------------------------------------------------
(* JavaScript Map: entries in insertion order *)

MapHas(m, k) == \E i \in 1..Len(m) : m[i].k = k

MapIdx(m, k) == CHOOSE i \in 1..Len(m) : m[i].k = k

\* map.get(k) || dflt for a number-valued map (0 is falsy, dflt is used for it).
MapGetOr(m, k, dflt) ==
    IF MapHas(m, k) /\ m[MapIdx(m, k)].v # 0 THEN m[MapIdx(m, k)].v ELSE dflt

\* map.get(k); only used where map.has(k).
MapGet(m, k) == m[MapIdx(m, k)].v

\* map.set(k, v): an existing key keeps its position.
MapSet(m, k, v) ==
    IF MapHas(m, k) THEN [m EXCEPT ![MapIdx(m, k)].v = v]
    ELSE Append(m, [k |-> k, v |-> v])

MapKeys(m) == {m[i].k : i \in 1..Len(m)}

----------------------------------------------------------------------------
(* Template registry: data/graphTemplates *)

TN(id, category) == [id |-> id, category |-> category]

TE(source, target, sign, strength, confidence, lagSteps) ==
    [source |-> source, target |-> target, sign |-> sign, strength |-> strength,
     confidence |-> confidence, rationale |-> <<>>, lagSteps |-> lagSteps]

TA(id, value) == [id |-> id, value |-> value]

foodSubstitutionTemplateNodes ==
    << TN("beef_consumption", "behavior"),
       TN("chicken_consumption", "behavior"),
       TN("beef_emissions", "emissions"),
       TN("chicken_emissions", "emissions"),
       TN("beef_water", "water"),
       TN("chicken_water", "water"),
       TN("pasture_land", "resource"),
       TN("feed_crop_land", "resource"),
       TN("beef_demand", "market"),
       TN("chicken_demand", "market"),
       TN("cost_savings", "rebound"),
       TN("rebound_spending", "rebound"),
       TN("packaging_waste", "waste"),
       TN("deforestation_pressure", "emissions") >>

foodSubstitutionTemplateEdges ==
    << TE("beef_consumption", "beef_emissions", 1, 950, 900, 0),
       TE("chicken_consumption", "chicken_emissions", 1, 950, 900, 0),
       TE("beef_consumption", "beef_water", 1, 950, 850, 0),
       TE("chicken_consumption", "chicken_water", 1, 950, 850, 0),
       TE("beef_consumption", "beef_demand", 1, 700, 600, 1),
       TE("chicken_consumption", "chicken_demand", 1, 700, 600, 1),
       TE("beef_consumption", "pasture_land", 1, 800, 750, 0),
       TE("beef_consumption", "feed_crop_land", 1, 600, 700, 0),
       TE("chicken_consumption", "feed_crop_land", 1, 850, 800, 0),
       TE("pasture_land", "deforestation_pressure", 1, 500, 500, 2),
       TE("feed_crop_land", "deforestation_pressure", 1, 400, 500, 2),
       TE("deforestation_pressure", "beef_emissions", 1, 300, 400, 1),
       TE("beef_consumption", "cost_savings", -1, 800, 700, 0),
       TE("chicken_consumption", "cost_savings", -1, 300, 700, 0),
       TE("cost_savings", "rebound_spending", 1, 500, 400, 1),
       TE("beef_consumption", "packaging_waste", 1, 300, 600, 0),
       TE("chicken_consumption", "packaging_waste", 1, 350, 600, 0) >>

foodSubstitutionTemplateAssumptions ==
    << TA("beef_co2_per_kg", 27000),
       TA("chicken_co2_per_kg", 6900),
       TA("beef_water_per_kg", 15400000),
       TA("chicken_water_per_kg", 4325000),
       TA("beef_price_per_kg", 12000),
       TA("chicken_price_per_kg", 5000),
       TA("rebound_rate", 300) >>

transportSubstitutionTemplateNodes ==
    << TN("rideshare_trips", "behavior"),
       TN("bike_trips", "behavior"),
       TN("vehicle_emissions", "emissions"),
       TN("bike_emissions", "emissions"),
       TN("fuel_consumption", "energy"),
       TN("calorie_expenditure", "energy"),
       TN("food_intake", "behavior"),
       TN("food_emissions", "emissions"),
       TN("rideshare_demand", "market"),
       TN("deadhead_miles", "emissions"),
       TN("physical_activity", "behavior"),
       TN("health_benefit", "policy"),
       TN("cost_savings", "rebound"),
       TN("rebound_travel", "rebound"),
       TN("road_wear", "resource"),
       TN("vehicle_waste", "waste") >>

transportSubstitutionTemplateEdges ==
    << TE("rideshare_trips", "vehicle_emissions", 1, 950, 900, 0),
       TE("rideshare_trips", "fuel_consumption", 1, 950, 950, 0),
       TE("bike_trips", "bike_emissions", 1, 200, 700, 0),
       TE("bike_trips", "calorie_expenditure", 1, 900, 850, 0),
       TE("calorie_expenditure", "food_intake", 1, 600, 500, 0),
       TE("food_intake", "food_emissions", 1, 800, 600, 0),
       TE("rideshare_trips", "rideshare_demand", 1, 500, 500, 1),
       TE("rideshare_trips", "deadhead_miles", 1, 400, 600, 0),
       TE("deadhead_miles", "vehicle_emissions", 1, 800, 850, 0),
       TE("bike_trips", "physical_activity", 1, 950, 950, 0),
       TE("physical_activity", "health_benefit", 1, 700, 600, 2),
       TE("rideshare_trips", "cost_savings", -1, 900, 900, 0),
       TE("cost_savings", "rebound_travel", 1, 300, 300, 1),
       TE("rideshare_trips", "road_wear", 1, 600, 700, 0),
       TE("rideshare_trips", "vehicle_waste", 1, 400, 600, 0) >>

transportSubstitutionTemplateAssumptions ==
    << TA("trip_distance", 8000),
       TA("rideshare_co2_per_km", 210),
       TA("deadhead_ratio", 400),
       TA("cycling_calories_per_km", 30000),
       TA("food_co2_per_kcal", 1),
       TA("rideshare_cost_per_km", 1500) >>

plasticBanTemplateNodes ==
    << TN("plastic_bag_use", "behavior"),
       TN("paper_bag_use", "behavior"),
       TN("reusable_bag_use", "behavior"),
       TN("plastic_production_emissions", "emissions"),
       TN("paper_production_emissions", "emissions"),
       TN("reusable_production_emissions", "emissions"),
       TN("paper_water_use", "water"),
       TN("cotton_water_use", "water"),
       TN("plastic_waste", "waste"),
       TN("paper_waste", "waste"),
       TN("ocean_plastic", "waste"),
       TN("petroleum_demand", "resource"),
       TN("forestry_demand", "resource"),
       TN("plastic_industry", "market"),
       TN("alternative_industry", "market"),
       TN("bag_forgetting", "rebound"),
       TN("thicker_plastic", "rebound") >>

plasticBanTemplateEdges ==
    << TE("plastic_bag_use", "plastic_production_emissions", 1, 950, 900, 0),
       TE("paper_bag_use", "paper_production_emissions", 1, 950, 850, 0),
       TE("reusable_bag_use", "reusable_production_emissions", 1, 300, 700, 0),
       TE("paper_bag_use", "paper_water_use", 1, 900, 800, 0),
       TE("reusable_bag_use", "cotton_water_use", 1, 500, 600, 0),
       TE("plastic_bag_use", "plastic_waste", 1, 950, 950, 0),
       TE("paper_bag_use", "paper_waste", 1, 900, 900, 0),
       TE("plastic_waste", "ocean_plastic", 1, 100, 400, 1),
       TE("plastic_bag_use", "petroleum_demand", 1, 800, 850, 0),
       TE("paper_bag_use", "forestry_demand", 1, 700, 700, 0),
       TE("plastic_bag_use", "plastic_industry", 1, 800, 800, 0),
       TE("paper_bag_use", "alternative_industry", 1, 800, 800, 0),
       TE("reusable_bag_use", "alternative_industry", 1, 600, 700, 0),
       TE("reusable_bag_use", "bag_forgetting", 1, 300, 500, 0),
       TE("bag_forgetting", "paper_bag_use", 1, 600, 600, 0),
       TE("plastic_bag_use", "thicker_plastic", -1, 200, 400, 1) >>

plasticBanTemplateAssumptions ==
    << TA("plastic_bag_co2", 40),
       TA("paper_bag_co2", 80),
       TA("reusable_bag_co2", 1500),
       TA("reusable_bag_uses", 100000),
       TA("plastic_bag_weight", 6),
       TA("ocean_leakage_rate", 20) >>

reusableBottleTemplateNodes ==
    << TN("disposable_bottles", "behavior"),
       TN("reusable_bottle_use", "behavior"),
       TN("pet_production", "emissions"),
       TN("reusable_production", "emissions"),
       TN("bottled_water_extraction", "water"),
       TN("washing_water", "water"),
       TN("tap_water", "water"),
       TN("transportation_energy", "energy"),
       TN("refrigeration_energy", "energy"),
       TN("plastic_bottle_waste", "waste"),
       TN("recycling_rate", "waste"),
       TN("landfill_waste", "waste"),
       TN("bottled_water_demand", "market"),
       TN("reusable_bottle_market", "market"),
       TN("water_fountain_demand", "policy"),
       TN("cost_savings", "rebound"),
       TN("convenience_effect", "rebound") >>

reusableBottleTemplateEdges ==
    << TE("disposable_bottles", "pet_production", 1, 950, 900, 0),
       TE("reusable_bottle_use", "reusable_production", 1, 150, 700, 0),
       TE("disposable_bottles", "bottled_water_extraction", 1, 950, 850, 0),
       TE("reusable_bottle_use", "washing_water", 1, 600, 700, 0),
       TE("reusable_bottle_use", "tap_water", 1, 950, 950, 0),
       TE("disposable_bottles", "transportation_energy", 1, 800, 800, 0),
       TE("disposable_bottles", "refrigeration_energy", 1, 600, 700, 0),
       TE("disposable_bottles", "plastic_bottle_waste", 1, 950, 950, 0),
       TE("plastic_bottle_waste", "recycling_rate", 1, 300, 500, 0),
       TE("plastic_bottle_waste", "landfill_waste", 1, 700, 600, 0),
       TE("disposable_bottles", "bottled_water_demand", 1, 800, 800, 0),
       TE("reusable_bottle_use", "reusable_bottle_market", 1, 500, 600, 1),
       TE("reusable_bottle_use", "water_fountain_demand", 1, 400, 400, 2),
       TE("disposable_bottles", "cost_savings", -1, 900, 900, 0),
       TE("reusable_bottle_use", "convenience_effect", 1, 200, 400, 0),
       TE("convenience_effect", "disposable_bottles", 1, 800, 700, 0) >>

reusableBottleTemplateAssumptions ==
    << TA("pet_bottle_co2", 82),
       TA("reusable_bottle_co2", 2500),
       TA("reusable_bottle_lifetime", 500000),
       TA("bottle_water_ratio", 1500),
       TA("washing_water_per_wash", 500),
       TA("recycling_rate_value", 290),
       TA("bottled_water_cost", 1500) >>

KnownKinds ==
    {"food_substitution", "transport_substitution", "plastic_ban", "reusable_adoption"}

\* graphTemplates[kind] for a registered kind (nodes, edges, shockNodes).
graphTemplates(kind) ==
    CASE kind = "food_substitution" ->
           [nodes |-> foodSubstitutionTemplateNodes,
            edges |-> foodSubstitutionTemplateEdges,
            shockNodes |-> <<"beef_consumption", "chicken_consumption">>]
      [] kind = "transport_substitution" ->
           [nodes |-> transportSubstitutionTemplateNodes,
            edges |-> transportSubstitutionTemplateEdges,
            shockNodes |-> <<"rideshare_trips", "bike_trips">>]
      [] kind = "plastic_ban" ->
           [nodes |-> plasticBanTemplateNodes,
            edges |-> plasticBanTemplateEdges,
            shockNodes |-> <<"plastic_bag_use", "paper_bag_use", "reusable_bag_use">>]
      [] kind = "reusable_adoption" ->
           [nodes |-> reusableBottleTemplateNodes,
            edges |-> reusableBottleTemplateEdges,
            shockNodes |-> <<"disposable_bottles", "reusable_bottle_use">>]

\* template.defaultAssumptions as loaded.
defaultAssumptions(kind) ==
    CASE kind = "food_substitution" -> foodSubstitutionTemplateAssumptions
      [] kind = "transport_substitution" -> transportSubstitutionTemplateAssumptions
      [] kind = "plastic_ban" -> plasticBanTemplateAssumptions
      [] kind = "reusable_adoption" -> reusableBottleTemplateAssumptions

----------------------------------------------------------------------------
(* Graph builder: services/graphBuilder.ts *)

\* String.prototype.includes on the node ids of the registry.
IdIncludes(id, word) ==
    CASE word = "emissions" ->
           id \in {"beef_emissions", "bike_emissions", "chicken_emissions",
                   "food_emissions", "paper_production_emissions",
                   "plastic_production_emissions", "reusable_production_emissions",
                   "vehicle_emissions"}
      [] word = "energy" -> id \in {"refrigeration_energy", "transportation_energy"}
      [] word = "beef" ->
           id \in {"beef_consumption", "beef_demand", "beef_emissions", "beef_water"}
      [] word = "transport" -> id \in {"transportation_energy"}

\* nodes.find(n => n.id === id)?.category
CategoryOf(nodes, id) ==
    IF \E i \in 1..Len(nodes) : nodes[i].id = id
    THEN nodes[CHOOSE i \in 1..Len(nodes) :
                 nodes[i].id = id /\ \A j \in 1..(i - 1) : nodes[j].id # id].category
    ELSE "undefined"

\* A geography hint is the set of region words its lower-cased text contains;
\* the empty set is an absent (or empty) hint.
applyGeographyAdjustments(edges, geography) ==
    LET west == "california" \in geography \/ "west coast" \in geography
        mid  == "midwest" \in geography
        West(e) ==
            IF west /\ IdIncludes(e.target, "emissions") /\ IdIncludes(e.source, "energy")
            THEN [e EXCEPT !.strength = MulMilli(e.strength, 800),
                           !.rationale = Append(e.rationale, "cleaner regional grid")]
            ELSE e
        Mid(e) ==
            IF mid /\ IdIncludes(e.source, "beef") /\ IdIncludes(e.target, "transport")
            THEN [e EXCEPT !.strength = MulMilli(e.strength, 700),
                           !.rationale = Append(e.rationale, "regional production")]
            ELSE e
    IN  [i \in 1..Len(edges) |-> Mid(West(edges[i]))]

\* The adoption scaling without the test of the source node's category.
applyScenarioAdjustmentsToAllEdges(nodes, edges, scenario) ==
    LET adopted ==
            IF scenario.scenarioType \in {"plastic_ban", "reusable_adoption"}
            THEN [i \in 1..Len(edges) |->
                    [edges[i] EXCEPT
                        !.strength = MulMilli(edges[i].strength, scenario.adoptionRate)]]
            ELSE edges
    IN  IF scenario.geography # {}
        THEN applyGeographyAdjustments(adopted, scenario.geography)
        ELSE adopted

applyScenarioAdjustments(nodes, edges, scenario) ==
    LET adopted ==
            IF scenario.scenarioType \in {"plastic_ban", "reusable_adoption"}
            THEN [i \in 1..Len(edges) |->
                    IF CategoryOf(nodes, edges[i].source) = "behavior"
                    THEN [edges[i] EXCEPT
                            !.strength = MulMilli(edges[i].strength, scenario.adoptionRate)]
                    ELSE edges[i]]
            ELSE edges
    IN  IF scenario.geography # {}
        THEN applyGeographyAdjustments(adopted, scenario.geography)
        ELSE adopted

instantiateTemplate(template, scenario) ==
    LET nodes == [i \in 1..Len(template.nodes) |->
                    [id |-> template.nodes[i].id,
                     category |-> template.nodes[i].category,
                     delta |-> 0, order |-> 0]]
        edges == [i \in 1..Len(template.edges) |->
                    [id |-> <<i - 1, template.edges[i].source, template.edges[i].target>>,
                     source |-> template.edges[i].source,
                     target |-> template.edges[i].target,
                     sign |-> template.edges[i].sign,
                     strength |-> template.edges[i].strength,
                     confidence |-> template.edges[i].confidence,
                     rationale |-> template.edges[i].rationale,
                     lagSteps |-> template.edges[i].lagSteps]]
    IN  [nodes |-> nodes, edges |-> applyScenarioAdjustments(nodes, edges, scenario)]

\* buildGraph for a registered kind; an unregistered kind throws (see the handler).
buildGraph(scenario) == instantiateTemplate(graphTemplates(scenario.scenarioType), scenario)

\* The template, had template.edges been handed to the adjustments without
\* the copy: their writes to strength and rationale land in it.
TemplateAfterSharedBuild(template, scenario) ==
    [template EXCEPT !.edges =
        [i \in 1..Len(template.edges) |->
            [template.edges[i] EXCEPT
                !.strength = instantiateTemplate(template, scenario).edges[i].strength,
                !.rationale = instantiateTemplate(template, scenario).edges[i].rationale]]]

\* The template after instantiateTemplate ran on it: nodes and edges are
\* copied object by object (the two spreads) before applyScenarioAdjustments
\* writes, and strength and rationale are primitives, so no write reaches it.
TemplateAfterBuild(template, scenario) == template

\* The scaler applied to the cumulative order as well as to the delta.
scaleGraphAndOrder(g, weeksSimulated) ==
    [nodes |-> [i \in 1..Len(g.nodes) |->
                  [g.nodes[i] EXCEPT !.delta = @ * weeksSimulated,
                                     !.order = @ * weeksSimulated]],
     edges |-> g.edges]

\* The scaler returning the graph as it got it.
scaleGraphKeepingDeltas(g, weeksSimulated) == g

\* nodes.map(node => ({...node, delta: node.delta ? node.delta * weeks : 0}))
scaleGraphByTimeframe(g, weeksSimulated) ==
    [nodes |-> [i \in 1..Len(g.nodes) |->
                  [g.nodes[i] EXCEPT
                     !.delta = IF g.nodes[i].delta # 0
                               THEN g.nodes[i].delta * weeksSimulated ELSE 0]],
     edges |-> g.edges]

----------------------------------------------------------------------------
(* Shock generator: createShocksFromScenario *)

Shock(nodeId, delta) == [nodeId |-> nodeId, delta |-> delta]

\* assumptions.forEach(a => assumptionMap.set(a.id, a.value))
AssumptionMap(assumptions) ==
    FoldLeft(LAMBDA m, a : MapSet(m, a.id, a.value), <<>>, assumptions)

\* The switch with the break of its first case missing: the food formula
\* falls through into the transport formula.
createShocksFallingThrough(scenarioType, frequency, assumptions) ==
    LET assumptionMap == AssumptionMap(assumptions)
        unit == DeltaScale \div Milli
    IN  CASE scenarioType = "food_substitution" ->
               << Shock("beef_consumption", MulMilli(-frequency * DeltaScale, 250)),
                  Shock("chicken_consumption", MulMilli(frequency * DeltaScale, 200)),
                  Shock("rideshare_trips", -frequency * DeltaScale),
                  Shock("bike_trips", frequency * DeltaScale) >>
          [] scenarioType = "transport_substitution" ->
               << Shock("rideshare_trips", -frequency * DeltaScale),
                  Shock("bike_trips", frequency * DeltaScale) >>
          [] scenarioType = "plastic_ban" ->
               LET adoptionRate == MapGetOr(assumptionMap, "adoption_rate", 800)
               IN  << Shock("plastic_bag_use", -10 * adoptionRate * unit),
                      Shock("paper_bag_use", MulMilli(10 * adoptionRate * unit, 300)),
                      Shock("reusable_bag_use", MulMilli(10 * adoptionRate * unit, 700)) >>
          [] scenarioType = "reusable_adoption" ->
               LET adoptionRate == MapGetOr(assumptionMap, "adoption_rate", 300)
               IN  << Shock("disposable_bottles", -7 * adoptionRate * unit),
                      Shock("reusable_bottle_use", 7 * adoptionRate * unit) >>
          [] OTHER -> <<>>

\* The shocks, had the transport formula used the tripDistance it reads
\* (relative to the default of 8 km).
createShocksUsingTripDistance(scenarioType, frequency, assumptions) ==
    LET assumptionMap == AssumptionMap(assumptions)
        unit == DeltaScale \div Milli
    IN  CASE scenarioType = "food_substitution" ->
               << Shock("beef_consumption", MulMilli(-frequency * DeltaScale, 250)),
                  Shock("chicken_consumption", MulMilli(frequency * DeltaScale, 200)) >>
          [] scenarioType = "transport_substitution" ->
               LET tripDistance == MapGetOr(assumptionMap, "trip_distance", 8000)
               IN  << Shock("rideshare_trips",
                            -frequency * MulMilli(DeltaScale \div 8, tripDistance)),
                      Shock("bike_trips",
                            frequency * MulMilli(DeltaScale \div 8, tripDistance)) >>
          [] scenarioType = "plastic_ban" ->
               LET adoptionRate == MapGetOr(assumptionMap, "adoption_rate", 800)
               IN  << Shock("plastic_bag_use", -10 * adoptionRate * unit),
                      Shock("paper_bag_use", MulMilli(10 * adoptionRate * unit, 300)),
                      Shock("reusable_bag_use", MulMilli(10 * adoptionRate * unit, 700)) >>
          [] scenarioType = "reusable_adoption" ->
               LET adoptionRate == MapGetOr(assumptionMap, "adoption_rate", 300)
               IN  << Shock("disposable_bottles", -7 * adoptionRate * unit),
                      Shock("reusable_bottle_use", 7 * adoptionRate * unit) >>
          [] OTHER -> <<>>

\* frequency is times per week (an integer); adoption_rate is in thousandths.
createShocksFromScenario(scenarioType, frequency, assumptions) ==
    LET assumptionMap == AssumptionMap(assumptions)
        unit == DeltaScale \div Milli
    IN  CASE scenarioType = "food_substitution" ->
               << Shock("beef_consumption", MulMilli(-frequency * DeltaScale, 250)),
                  Shock("chicken_consumption", MulMilli(frequency * DeltaScale, 200)) >>
          [] scenarioType = "transport_substitution" ->
               << Shock("rideshare_trips", -frequency * DeltaScale),
                  Shock("bike_trips", frequency * DeltaScale) >>
          [] scenarioType = "plastic_ban" ->
               LET adoptionRate == MapGetOr(assumptionMap, "adoption_rate", 800)
               IN  << Shock("plastic_bag_use", -10 * adoptionRate * unit),
                      Shock("paper_bag_use", MulMilli(10 * adoptionRate * unit, 300)),
                      Shock("reusable_bag_use", MulMilli(10 * adoptionRate * unit, 700)) >>
          [] scenarioType = "reusable_adoption" ->
               LET adoptionRate == MapGetOr(assumptionMap, "adoption_rate", 300)
               IN  << Shock("disposable_bottles", -7 * adoptionRate * unit),
                      Shock("reusable_bottle_use", 7 * adoptionRate * unit) >>
          [] OTHER -> <<>>

----------------------------------------------------------------------------
(* Propagation engine: propagate and createStep *)

DEFAULT_CONFIG == [maxDepth |-> 5, epsilon |-> DeltaScale \div Milli, decayFactor |-> 800]

\* graph.nodes.forEach(node => nodeMap.set(node.id, {...node, delta: 0, order: 0}))
InitNodeMap(nodes) ==
    FoldLeft(LAMBDA m, node : MapSet(m, node.id, [node EXCEPT !.delta = 0, !.order = 0]),
             <<>>, nodes)

\* edgesBySource.get(sourceId) || []
EdgesBySource(edges, sourceId) == SelectSeq(edges, LAMBDA e : e.source = sourceId)

\* The input graph, had nodeMap held the input's node objects themselves:
\* every write to a node of nodeMap shows in the input.
InputGraphSharingNodes(g, nmap) ==
    [g EXCEPT !.nodes = [i \in 1..Len(g.nodes) |-> nmap[MapIdx(nmap, g.nodes[i].id)].v]]

\* The input graph after writes to nodeMap: nodeMap holds spread copies of
\* the nodes and edgesBySource holds new arrays, so no write reaches it.
InputGraphAfterWrites(g, nmap) == g

\* One shock of the step-0 forEach applied to the engine state.
ApplyShock(st, shock) ==
    [st EXCEPT
       !.currentDeltas = MapSet(st.currentDeltas, shock.nodeId, shock.delta),
       !.nodeDeltas = MapSet(st.nodeDeltas, shock.nodeId, shock.delta),
       !.nodeOrders = MapSet(st.nodeOrders, shock.nodeId, 1),
       !.nodeMap = IF MapHas(st.nodeMap, shock.nodeId)
                   THEN [st.nodeMap EXCEPT ![MapIdx(st.nodeMap, shock.nodeId)].v =
                            [@ EXCEPT !.delta = shock.delta, !.order = 1]]
                   ELSE st.nodeMap]

\* Step 0: shocks.forEach(...)
ApplyShocks(st, shockList) == FoldLeft(ApplyShock, st, shockList)

\* TargetDelta with the decay factor forgotten.
TargetDeltaNoDecay(sourceDelta, edge, config) ==
    MulMilli(sourceDelta * edge.sign, edge.strength)

\* The contribution computed without the edge's strength.
TargetDeltaIgnoringStrength(sourceDelta, edge, config) ==
    MulMilli(sourceDelta * edge.sign, config.decayFactor)

\* sourceDelta * edge.sign * edge.strength * cfg.decayFactor
TargetDelta(sourceDelta, edge, config) ==
    MulMilli(MulMilli(sourceDelta * edge.sign, edge.strength), config.decayFactor)

\* The lag test with the lag ignored: every edge fires at once.
SkipsNothing(edge) == FALSE

\* if (edge.lagSteps > 0) continue
SkipsLagged(edge) == edge.lagSteps > 0

\* The contributions the two nested loops keep, in the order they are computed:
\* sources in currentDeltas order with |sourceDelta| >= epsilon, their edges in
\* edge-list order without lag, |targetDelta| >= epsilon.
Retained(cur, edges, config) ==
    LET FromSource(entry) ==
            LET out == SelectSeq(EdgesBySource(edges, entry.k),
                                 LAMBDA e : ~SkipsLagged(e))
                all == [j \in 1..Len(out) |->
                          [target |-> out[j].target, edge |-> out[j].id,
                           delta |-> TargetDelta(entry.v, out[j], config)]]
            IN  SelectSeq(all, LAMBDA c : ~(Abs(c.delta) < config.epsilon))
    IN  FoldLeft(LAMBDA acc, entry :
                    IF Abs(entry.v) < config.epsilon THEN acc
                    ELSE acc \o FromSource(entry),
                 <<>>, cur)

\* nextDeltas.set(edge.target, targetDelta): the last contribution replaces
\* the earlier ones.
NextDeltasOverwriting(retained) ==
    FoldLeft(LAMBDA m, c : MapSet(m, c.target, c.delta), <<>>, retained)

\* nextDeltas.set(edge.target, (nextDeltas.get(edge.target) || 0) + targetDelta)
NextDeltas(retained) ==
    FoldLeft(LAMBDA m, c : MapSet(m, c.target, MapGetOr(m, c.target, 0) + c.delta),
             <<>>, retained)

\* contributingEdges: target -> ids of the edges that contributed, in order.
ContributingEdges(retained) ==
    FoldLeft(LAMBDA m, c : MapSet(m, c.target,
                                  Append(IF MapHas(m, c.target) THEN MapGet(m, c.target)
                                         ELSE <<>>, c.edge)),
             <<>>, retained)

HasSignificantDelta(nextDeltas, config) ==
    \E i \in 1..Len(nextDeltas) : Abs(nextDeltas[i].v) >= config.epsilon

\* UpdateNode without the "only if not already set" guards on the order.
UpdateNodeOrderOverwritten(st, entry, d) ==
    [st EXCEPT
       !.nodeDeltas = MapSet(st.nodeDeltas, entry.k,
                             MapGetOr(st.nodeDeltas, entry.k, 0) + entry.v),
       !.nodeOrders = MapSet(st.nodeOrders, entry.k, d + 1),
       !.nodeMap = IF MapHas(st.nodeMap, entry.k)
                   THEN [st.nodeMap EXCEPT ![MapIdx(st.nodeMap, entry.k)].v =
                            [@ EXCEPT !.delta = @ + entry.v, !.order = d + 1]]
                   ELSE st.nodeMap]

\* One entry of nextDeltas applied to the cumulative maps and the node copy.
UpdateNode(st, entry, d) ==
    [st EXCEPT
       !.nodeDeltas = MapSet(st.nodeDeltas, entry.k,
                             MapGetOr(st.nodeDeltas, entry.k, 0) + entry.v),
       !.nodeOrders = IF ~MapHas(st.nodeOrders, entry.k)
                      THEN MapSet(st.nodeOrders, entry.k, d + 1)
                      ELSE st.nodeOrders,
       !.nodeMap = IF MapHas(st.nodeMap, entry.k)
                   THEN [st.nodeMap EXCEPT ![MapIdx(st.nodeMap, entry.k)].v =
                            [@ EXCEPT !.delta = @ + entry.v,
                                      !.order = IF @ = 0 THEN d + 1 ELSE @]]
                   ELSE st.nodeMap]

UpdateNodes(st, nextDeltas, d) ==
    FoldLeft(LAMBDA s, entry : UpdateNode(s, entry, d), st, nextDeltas)

CategorySum(nodes, category) ==
    SeqSum([i \in 1..Len(nodes) |->
              IF nodes[i].v.category = category THEN nodes[i].v.delta ELSE 0])

\* The step record with the totals of this step's deltas alone instead of
\* the running totals.
createStepWithOwnTotals(stepNum, deltas, nmap, contributingEdges) ==
    LET present == SelectSeq(deltas, LAMBDA e : MapHas(nmap, e.k))
        Own(category) ==
            SeqSum([i \in 1..Len(present) |->
                      IF nmap[MapIdx(nmap, present[i].k)].v.category = category
                      THEN present[i].v ELSE 0])
    IN  [step |-> stepNum,
         affectedNodes |->
            [i \in 1..Len(present) |->
               [nodeId |-> present[i].k, delta |-> present[i].v,
                contributingEdges |->
                   IF MapHas(contributingEdges, present[i].k)
                   THEN MapGet(contributingEdges, present[i].k) ELSE <<>>]],
         cumulativeDelta |->
            [carbon |-> Own("emissions"), water |-> Own("water"), waste |-> Own("waste")]]

createStep(stepNum, deltas, nmap, contributingEdges) ==
    LET Affected(present, contributing) ==
            [i \in 1..Len(present) |->
               [nodeId |-> present[i].k, delta |-> present[i].v,
                contributingEdges |->
                   IF MapHas(contributing, present[i].k)
                   THEN MapGet(contributing, present[i].k) ELSE <<>>]]
    IN  [step |-> stepNum,
         affectedNodes |->
            Strict(SelectSeq(deltas, LAMBDA e : MapHas(nmap, e.k)),
                   LAMBDA present :
                       Strict(contributingEdges, LAMBDA c : Affected(present, c))),
         cumulativeDelta |->
            [carbon |-> CategorySum(nmap, "emissions"),
             water |-> CategorySum(nmap, "water"),
             waste |-> CategorySum(nmap, "waste")]]

\* The engine state before step 0 with the node copies of an earlier call
\* kept, as a module-level nodeMap would.
EngineStartKeepsNodes(g) ==
    [nodeMap |-> IF firstResult = <<>> THEN InitNodeMap(g.nodes)
                 ELSE FoldLeft(LAMBDA m, node : MapSet(m, node.id, node), <<>>,
                               firstResult[1].graph.nodes),
     currentDeltas |-> <<>>, nodeDeltas |-> <<>>, nodeOrders |-> <<>>, steps |-> <<>>]

\* The engine state before step 0.
EngineStart(g) ==
    [nodeMap |-> InitNodeMap(g.nodes), currentDeltas |-> <<>>, nodeDeltas |-> <<>>,
     nodeOrders |-> <<>>, steps |-> <<>>]

\* Step 0 and its step record.
StepZero(g, shockList) ==
    LET Record(st) ==
            [st EXCEPT !.steps = <<createStep(0, st.currentDeltas, st.nodeMap, <<>>)>>]
    IN  Strict(ApplyShocks(EngineStart(g), shockList), Record)

\* The loop condition off by one.
LoopGuardOffByOne(d, config) == d <= config.maxDepth + 1

\* The loop condition: depth <= cfg.maxDepth
LoopGuard(d, config) == d <= config.maxDepth

\* The body of the loop at depth d; brk says the loop was left by break.
Iterate(st, edges, config, d) ==
    LET Body(retained, nextDeltas) ==
            LET Record(upd) ==
                    [upd EXCEPT
                       !.steps = Append(upd.steps,
                                        createStep(d, nextDeltas, upd.nodeMap,
                                                   ContributingEdges(retained))),
                       !.currentDeltas = nextDeltas]
            IN  IF ~HasSignificantDelta(nextDeltas, config)
                THEN [brk |-> TRUE, st |-> st]
                ELSE [brk |-> FALSE, st |-> Strict(UpdateNodes(st, nextDeltas, d), Record)]
    IN  Strict(Retained(st.currentDeltas, edges, config),
               LAMBDA retained :
                   Strict(NextDeltas(retained), LAMBDA nextDeltas : Body(retained, nextDeltas)))

\* propagate(graph, shocks, assumptions, config): the assumptions are only
\* copied into a map that nothing reads.
propagate(g, shockList, config) ==
    LET RECURSIVE Loop(_, _)
        Loop(st, d) ==
            IF ~LoopGuard(d, config) THEN st
            ELSE LET r == Iterate(st, g.edges, config, d)
                 IN  IF r.brk THEN st ELSE Loop(r.st, d + 1)
        fin == Loop(StepZero(g, shockList), 1)
    IN  [graph |-> [nodes |-> [i \in 1..Len(fin.nodeMap) |-> fin.nodeMap[i].v],
                    edges |-> g.edges],
         steps |-> fin.steps, nodeDeltas |-> fin.nodeDeltas, nodeOrders |-> fin.nodeOrders]

----------------------------------------------------------------------------
(* Aggregator: calculateTotals *)

\* A percentage is kept exact, as the fraction num / den.
Percent(num, den) == [num |-> num, den |-> den]

\* Average confidence of the edges leading to the node; 0.5 if there are none.
getNodeConfidence(g, nodeId) ==
    LET incomingEdges == SelectSeq(g.edges, LAMBDA e : e.target = nodeId)
    IN  IF Len(incomingEdges) = 0 THEN 500
        ELSE TruncDiv(SeqSum([i \in 1..Len(incomingEdges) |->
                                 incomingEdges[i].confidence]),
                      Len(incomingEdges))

\* item.percentage = (Math.abs(item.contribution) / absTotal) * 100, unless
\* the total is 0.
calculatePercentages(breakdown, total) ==
    IF total = 0 THEN breakdown
    ELSE [i \in 1..Len(breakdown) |->
            [breakdown[i] EXCEPT
               !.percentage = Percent(Abs(breakdown[i].contribution) * 100, Abs(total))]]

\* The breakdown left in the order the nodes were pushed.
KeepPushOrder(breakdown) == breakdown

\* breakdown.sort((a, b) => Math.abs(b.contribution) - Math.abs(a.contribution)):
\* a stable sort, larger magnitudes first.
SortByAbsContribution(breakdown) ==
    LET Insert(sorted, item) ==
            LET pos == Cardinality({j \in 1..Len(sorted) :
                           Abs(sorted[j].contribution) >= Abs(item.contribution)})
            IN  SubSeq(sorted, 1, pos) \o <<item>> \o SubSeq(sorted, pos + 1, Len(sorted))
    IN  FoldLeft(Insert, <<>>, breakdown)

\* One of the three MetricResults: the loop of calculateTotals restricted to
\* the nodes of one category.
CategoryResult(g, category) ==
    LET contributing == SelectSeq(g.nodes, LAMBDA n : n.delta # 0 /\ n.category = category)
        total == SeqSum([i \in 1..Len(contributing) |-> contributing[i].delta])
        breakdown == [i \in 1..Len(contributing) |->
                        [nodeId |-> contributing[i].id,
                         contribution |-> contributing[i].delta,
                         percentage |-> Percent(0, 1)]]
        confidenceSum == SeqSum([i \in 1..Len(contributing) |->
                                    getNodeConfidence(g, contributing[i].id)])
        count == Len(contributing)
    IN  [value |-> total,
         confidence |-> IF count > 0 THEN TruncDiv(confidenceSum, count) ELSE 0,
         breakdown |-> SortByAbsContribution(calculatePercentages(breakdown, total))]

calculateTotals(g) ==
    [carbon |-> CategoryResult(g, "emissions"),
     water |-> CategoryResult(g, "water"),
     waste |-> CategoryResult(g, "waste")]

\* a / b < c / d for a, c >= 0 and b, d > 0, by comparing the integer parts
\* and then the reciprocals of the remainders (no product is formed).
RECURSIVE FracLessThan(_, _, _, _)
FracLessThan(a, b, c, d) ==
    IF a \div b # c \div d THEN a \div b < c \div d
    ELSE IF c % d = 0 THEN FALSE
    ELSE IF a % b = 0 THEN TRUE
    ELSE FracLessThan(d, c % d, b, a % b)

\* nodeOrders.get(id), 0 for undefined.
OrderOf(orders, id) == IF MapHas(orders, id) THEN MapGet(orders, id) ELSE 0

Min(a, b) == IF a < b THEN a ELSE b

\* A stable sort: item goes behind every entry that Before does not put
\* after it.
StableSort(items, Before(_, _)) ==
    LET Insert(sorted, item) ==
            LET pos == Cardinality({j \in 1..Len(sorted) : ~Before(item, sorted[j])})
            IN  SubSeq(sorted, 1, pos) \o <<item>> \o SubSeq(sorted, pos + 1, Len(sorted))
    IN  FoldLeft(Insert, <<>>, items)

Effect(node, order) == [nodeId |-> node.id, delta |-> node.delta, order |-> order]

\* Nodes of order 1 with a delta, larger magnitudes first.
extractFirstOrderEffects(g, orders) ==
    LET hit == SelectSeq(g.nodes, LAMBDA n : OrderOf(orders, n.id) = 1 /\ n.delta # 0)
    IN  StableSort([i \in 1..Len(hit) |-> Effect(hit[i], 1)],
                   LAMBDA a, b : Abs(a.delta) > Abs(b.delta))

\* The downstream effects with the order reported as it is, not capped.
extractDownstreamEffectsUncapped(g, orders) ==
    LET hit == SelectSeq(g.nodes, LAMBDA n : /\ OrderOf(orders, n.id) > 1
                                             /\ n.delta # 0
                                             /\ n.category # "rebound")
    IN  StableSort([i \in 1..Len(hit) |-> Effect(hit[i], OrderOf(orders, hit[i].id))],
                   LAMBDA a, b : \/ a.order < b.order
                                 \/ a.order = b.order /\ Abs(a.delta) > Abs(b.delta))

\* The downstream effects without the test that leaves rebound nodes out.
extractDownstreamEffectsWithRebound(g, orders) ==
    LET hit == SelectSeq(g.nodes, LAMBDA n : OrderOf(orders, n.id) > 1 /\ n.delta # 0)
    IN  StableSort([i \in 1..Len(hit) |->
                       Effect(hit[i], Min(OrderOf(orders, hit[i].id), 3))],
                   LAMBDA a, b : \/ a.order < b.order
                                 \/ a.order = b.order /\ Abs(a.delta) > Abs(b.delta))

\* Nodes of order above 1 with a delta, outside the rebound category; the
\* order shown is capped at 3; sorted by order, then by magnitude.
extractDownstreamEffects(g, orders) ==
    LET hit == SelectSeq(g.nodes, LAMBDA n : /\ OrderOf(orders, n.id) > 1
                                             /\ n.delta # 0
                                             /\ n.category # "rebound")
    IN  StableSort([i \in 1..Len(hit) |->
                       Effect(hit[i], Min(OrderOf(orders, hit[i].id), 3))],
                   LAMBDA a, b : \/ a.order < b.order
                                 \/ a.order = b.order /\ Abs(a.delta) > Abs(b.delta))

\* The offset computed although the carbon total is 0.
OffsetPercentageUnguarded(delta, carbonValue) == Percent(Abs(delta) * 100, Abs(carbonValue))

\* offsetPercentage = Math.abs(node.delta / totals.carbon.value) * 100, 0 if
\* the carbon total is 0.
OffsetPercentage(delta, carbonValue) ==
    IF carbonValue # 0 THEN Percent(Abs(delta) * 100, Abs(carbonValue)) ELSE Percent(0, 1)

\* Rebound nodes with a delta, in node order.
extractReboundEffects(g, orders, tot) ==
    LET hit == SelectSeq(g.nodes, LAMBDA n : n.category = "rebound" /\ n.delta # 0)
    IN  [i \in 1..Len(hit) |->
            [nodeId |-> hit[i].id, delta |-> hit[i].delta,
             order |-> Min(IF OrderOf(orders, hit[i].id) # 0
                           THEN OrderOf(orders, hit[i].id) ELSE 2, 3),
             offsetPercentage |-> OffsetPercentage(hit[i].delta, tot.carbon.value)]]

\* influence = |delta / category total|, times 0.5 for water and 0.3 for
\* waste; 0 if the category total is 0.  Kept as the fraction num / den.
Influence(node, tot) ==
    IF node.category = "emissions" /\ tot.carbon.value # 0
    THEN Percent(Abs(node.delta) * 10, Abs(tot.carbon.value) * 10)
    ELSE IF node.category = "water" /\ tot.water.value # 0
    THEN Percent(Abs(node.delta) * 5, Abs(tot.water.value) * 10)
    ELSE IF node.category = "waste" /\ tot.waste.value # 0
    THEN Percent(Abs(node.delta) * 3, Abs(tot.waste.value) * 10)
    ELSE Percent(0, 1)

\* The impact nodes with a delta, sorted by influence, the first limit of them.
identifyTopDrivers(g, tot, limit) ==
    LET hit == SelectSeq(g.nodes, LAMBDA n : /\ n.delta # 0
                                             /\ n.category \in {"emissions", "water", "waste"})
        drivers == [i \in 1..Len(hit) |->
                       [nodeId |-> hit[i].id, influence |-> Influence(hit[i], tot)]]
        sorted == StableSort(drivers,
                             LAMBDA a, b : FracLessThan(b.influence.num, b.influence.den,
                                                        a.influence.num, a.influence.den))
    IN  SubSeq(sorted, 1, Min(limit, Len(sorted)))


----------------------------------------------------------------------------
(* Input parser: parseQuery and parseStructuredInput *)

\* An optional field is <<>> (undefined) or <<value>>.
\* A parsed scenario carries its assumptions by reference: ref "registry" is
\* the defaultAssumptions array of the template of its kind, ref "own" is an
\* array only this request holds (input.assumptions, or a fresh []).

FOOD_KEYWORDS ==
    {"beef", "chicken", "pork", "fish", "meat", "vegetarian", "vegan", "food", "eat",
     "meal", "diet"}

TRANSPORT_KEYWORDS ==
    {"uber", "lyft", "rideshare", "bike", "bicycle", "car", "drive", "bus", "transit",
     "walk", "commute", "trip"}

PLASTIC_KEYWORDS == {"plastic", "bag", "ban", "single-use", "disposable", "packaging"}

REUSABLE_KEYWORDS == {"bottle", "water", "reusable", "tumbler", "cup", "container"}

\* A query is given by what the parser's searches find in it: found is the
\* set of substrings query.includes reports, frequency the value of the first
\* matching frequency pattern, percent the number in front of a % sign.
classifyScenario(query) ==
    LET Hits(keywords) == 2 * Cardinality(query.found \cap keywords)
        policy == IF query.found \cap {"ban", "policy", "city", "law"} # {} THEN 3 ELSE 0
        individual == IF query.found \cap {"i ", "my ", "me "} # {} THEN 1 ELSE 0
        scores == << [type |-> "food_substitution", score |-> Hits(FOOD_KEYWORDS)],
                     [type |-> "transport_substitution", score |-> Hits(TRANSPORT_KEYWORDS)],
                     [type |-> "plastic_ban",
                      score |-> Hits(PLASTIC_KEYWORDS) + policy - individual],
                     [type |-> "reusable_adoption", score |-> Hits(REUSABLE_KEYWORDS)] >>
        best == FoldLeft(LAMBDA b, e : IF e.score > b.maxScore
                                       THEN [maxScore |-> e.score, bestType |-> e.type]
                                       ELSE b,
                         [maxScore |-> 0, bestType |-> "food_substitution"], scores)
    IN  best.bestType

extractFrequency(query) == IF query.frequency # <<>> THEN query.frequency[1] ELSE 2

extractAdoptionRate(query) ==
    IF query.percent # <<>> THEN (query.percent[1] * Milli) \div 100
    ELSE IF query.found \cap {"everyone", "all "} # {} THEN 1000
    ELSE IF query.found \cap {"half", "50%"} # {} THEN 500
    ELSE IF "most" \in query.found THEN 700
    ELSE IF "some" \in query.found THEN 300
    ELSE 1000

parseQuery(query) ==
    [scenarioType |-> classifyScenario(query),
     frequency |-> extractFrequency(query),
     adoptionRate |-> extractAdoptionRate(query),
     timeframe |-> 1,
     geography |-> {},
     ref |-> "registry",
     own |-> <<>>]

parseStructuredInput(input) ==
    LET scenarioType == IF input.scenarioType # <<>> THEN input.scenarioType[1]
                        ELSE "food_substitution"
        Truthy(field, dflt) == IF field # <<>> /\ field[1] # 0 THEN field[1] ELSE dflt
    IN  [scenarioType |-> scenarioType,
         frequency |-> Truthy(input.frequency, 2),
         adoptionRate |-> IF input.adoptionRate # <<>> THEN input.adoptionRate[1] ELSE 1000,
         timeframe |-> Truthy(input.timeframe, 1),
         geography |-> {},
         ref |-> IF input.assumptions = <<>> /\ scenarioType \in KnownKinds
                 THEN "registry" ELSE "own",
         own |-> IF input.assumptions # <<>> THEN input.assumptions[1] ELSE <<>>]

----------------------------------------------------------------------------
(* Simulate handler: the steps between parsing and the response *)

\* The override loop, had it also kept the entries that name no assumption.
applyOverridesKeepingUnknown(assumptions, overrides) ==
    [i \in 1..Len(assumptions) |->
        IF MapHas(overrides, assumptions[i].id)
        THEN [assumptions[i] EXCEPT !.value = MapGet(overrides, assumptions[i].id)]
        ELSE assumptions[i]]
    \o [i \in 1..Len(SelectSeq(overrides,
                 LAMBDA o : \A k \in 1..Len(assumptions) : assumptions[k].id # o.k)) |->
          TA(SelectSeq(overrides,
                 LAMBDA o : \A k \in 1..Len(assumptions) : assumptions[k].id # o.k)[i].k,
             SelectSeq(overrides,
                 LAMBDA o : \A k \in 1..Len(assumptions) : assumptions[k].id # o.k)[i].v)]

\* for (const assumption of scenario.assumptions)
\*   if (request.overrides[assumption.id] !== undefined) assumption.value = ...
\* as the new contents of the array the loop writes into.
applyOverrides(assumptions, overrides) ==
    [i \in 1..Len(assumptions) |->
        IF MapHas(overrides, assumptions[i].id)
        THEN [assumptions[i] EXCEPT !.value = MapGet(overrides, assumptions[i].id)]
        ELSE assumptions[i]]

\* Steps 3 to 7 of the handler for a registered kind: build, shock, propagate,
\* scale, aggregate.  The effect lists, the drivers and the narrative are
\* computed from this result and written nowhere but into the response.
runSimulation(scenario, assumptions) ==
    LET Finish(propagationResult) ==
            LET final == IF scenario.timeframe > 1
                         THEN scaleGraphByTimeframe(propagationResult.graph,
                                                    scenario.timeframe)
                         ELSE propagationResult.graph
            IN  [graph |-> final,
                 propagationSteps |-> propagationResult.steps,
                 nodeOrders |-> propagationResult.nodeOrders,
                 totals |-> calculateTotals(final)]
    IN  Strict(propagate(buildGraph(scenario),
                         createShocksFromScenario(scenario.scenarioType,
                                                  scenario.frequency, assumptions),
                         DEFAULT_CONFIG),
               Finish)

----------------------------------------------------------------------------
(* Inputs of the propagation engine *)

MaxFrequency == 3

MaxShocks == 2

MaxEdges == 3

\* Sequences over S of length at most n.
SeqsUpTo(S, n) == UNION {[1..k -> S] : k \in 0..n}

\* The subsequences of pool with at most n elements, order kept.
SubSeqs(pool, n) ==
    LET Pick(I) == FoldLeft(LAMBDA acc, i : IF i \in I THEN Append(acc, pool[i]) ELSE acc,
                            <<>>, [i \in 1..Len(pool) |-> i])
    IN  {Pick(I) : I \in {J \in SUBSET (1..Len(pool)) : Cardinality(J) <= n}}

AdoptionRates == {0, 500, 1000}

\* A parsed scenario as parseStructuredInput returns it (fields the core reads).
Scenario(kind, frequency, adoptionRate, timeframe, geography) ==
    [scenarioType |-> kind, frequency |-> frequency, adoptionRate |-> adoptionRate,
     timeframe |-> timeframe, geography |-> geography]

\* The calls of propagate the request pipeline makes.
PipelineInputs ==
    {[graph |-> buildGraph(Scenario(k, f, a, 1, {})),
      shocks |-> createShocksFromScenario(k, f, defaultAssumptions(k)),
      cfg |-> DEFAULT_CONFIG] :
        k \in KnownKinds, f \in 1..MaxFrequency, a \in AdoptionRates}

\* Small graphs for direct calls of propagate: a cycle, cancelling parallel
\* edges, a lagged edge, a zero-strength edge, edges naming a missing node x.
TestNodes ==
    << [id |-> "a", category |-> "behavior", delta |-> 0, order |-> 0],
       [id |-> "b", category |-> "emissions", delta |-> 0, order |-> 0],
       [id |-> "c", category |-> "water", delta |-> 0, order |-> 0],
       [id |-> "d", category |-> "waste", delta |-> 0, order |-> 0] >>

TestEdge(i, source, target, sign, strength, lagSteps) ==
    [id |-> <<i, source, target>>, source |-> source, target |-> target, sign |-> sign,
     strength |-> strength, confidence |-> 500, rationale |-> <<>>, lagSteps |-> lagSteps]

TestEdgePool ==
    << TestEdge(0, "a", "b", 1, 1000, 0),
       TestEdge(1, "a", "b", -1, 999, 0),
       TestEdge(2, "b", "a", 1, 1000, 0),
       TestEdge(3, "b", "c", 1, 900, 1),
       TestEdge(4, "b", "d", 1, 0, 0),
       TestEdge(5, "a", "x", 1, 1000, 0),
       TestEdge(6, "x", "d", -1, 1000, 0) >>

TestShockPool ==
    {Shock("a", DeltaScale), Shock("a", -(DeltaScale \div 2)), Shock("b", DeltaScale),
     Shock("x", DeltaScale), Shock("d", 50)}

TestConfigs == {DEFAULT_CONFIG, [maxDepth |-> 2, epsilon |-> 100, decayFactor |-> 1000]}

\* The test nodes as an earlier run left them: deltas and orders set.
UsedNodes ==
    << [id |-> "a", category |-> "behavior", delta |-> 7 * DeltaScale, order |-> 1],
       [id |-> "b", category |-> "emissions", delta |-> -DeltaScale, order |-> 3],
       [id |-> "c", category |-> "water", delta |-> 0, order |-> 0],
       [id |-> "d", category |-> "waste", delta |-> 50, order |-> 2] >>

DirectInputs ==
    {[graph |-> [nodes |-> TestNodes, edges |-> es], shocks |-> sh, cfg |-> c] :
        es \in SubSeqs(TestEdgePool, MaxEdges),
        sh \in SeqsUpTo(TestShockPool, MaxShocks),
        c \in TestConfigs}
    \cup
    {[graph |-> [nodes |-> UsedNodes, edges |-> es], shocks |-> sh, cfg |-> DEFAULT_CONFIG] :
        es \in SubSeqs(SubSeq(TestEdgePool, 1, 3), MaxEdges),
        sh \in SeqsUpTo(TestShockPool, 1)}

----------------------------------------------------------------------------
(* One call of propagate as a state machine *)

EmptyGraph == [nodes |-> <<>>, edges |-> <<>>]

\* The registry as loaded.
LoadedRegistry == [kind \in KnownKinds |-> defaultAssumptions(kind)]

\* Values of the variables of a component that is not running.
EngineIdle ==
    /\ graph = EmptyGraph /\ shocks = <<>> /\ cfg = DEFAULT_CONFIG
    /\ nodeMap = <<>> /\ currentDeltas = <<>> /\ nodeDeltas = <<>> /\ nodeOrders = <<>>
    /\ steps = <<>> /\ depth = 0 /\ pc = "idle" /\ firstResult = <<>>

AggIdle ==
    /\ resultGraph = EmptyGraph /\ scaledBy = 0 /\ finalGraph = EmptyGraph
    /\ totals = <<>> /\ apc = "idle"
    /\ resultOrders = <<>> /\ effects = <<>> /\ topDrivers = <<>>

SimIdle == registry = LoadedRegistry /\ aiConfig = FALSE /\ requests = <<>>

\* A template with the two kinds of edge applyGeographyAdjustments rewrites
\* (no edge of the four registered templates is of either kind).
GeographyProbeTemplate ==
    [nodes |-> << TN("beef_consumption", "behavior"),
                  TN("transportation_energy", "energy"),
                  TN("vehicle_emissions", "emissions") >>,
     edges |-> << TE("beef_consumption", "transportation_energy", 1, 500, 800, 0),
                  TE("transportation_energy", "vehicle_emissions", 1, 900, 800, 0) >>]

BuildKinds == KnownKinds \cup {"geography_probe"}

\* The templates as loaded: the nodes and edges of every registered kind,
\* and the probe.
LoadedTemplates ==
    [kind \in BuildKinds |->
        IF kind \in KnownKinds
        THEN [nodes |-> graphTemplates(kind).nodes, edges |-> graphTemplates(kind).edges]
        ELSE GeographyProbeTemplate]

BuildIdle == templates = LoadedTemplates /\ builds = <<>>

EngineState ==
    [nodeMap |-> nodeMap, currentDeltas |-> currentDeltas, nodeDeltas |-> nodeDeltas,
     nodeOrders |-> nodeOrders, steps |-> steps]

SetEngineState(st) ==
    /\ nodeMap' = st.nodeMap
    /\ currentDeltas' = st.currentDeltas
    /\ nodeDeltas' = st.nodeDeltas
    /\ nodeOrders' = st.nodeOrders
    /\ steps' = st.steps

\* The call is entered: lookup maps built, nothing applied yet.
InitProp ==
    /\ \E in \in PipelineInputs \cup DirectInputs :
          /\ graph = in.graph
          /\ shocks = in.shocks
          /\ cfg = in.cfg
    /\ nodeMap = InitNodeMap(graph.nodes)
    /\ currentDeltas = <<>>
    /\ nodeDeltas = <<>>
    /\ nodeOrders = <<>>
    /\ steps = <<>>
    /\ depth = 0
    /\ pc = "start"
    /\ firstResult = <<>>
    /\ AggIdle
    /\ SimIdle
    /\ BuildIdle

\* Step 0: apply the shocks and record step 0.
ApplyInitialShocks ==
    /\ pc = "start"
    /\ \E st \in {StepZero(graph, shocks)} :
          /\ SetEngineState(st)
          /\ graph' = InputGraphAfterWrites(graph, st.nodeMap)
    /\ depth' = 1
    /\ pc' = "loop"
    /\ UNCHANGED <<shocks, cfg>>
    /\ UNCHANGED <<firstResult, aggVars, simVars, buildVars>>

\* One iteration of the loop that finds a significant delta.
PropagateStep ==
    /\ pc = "loop"
    /\ LoopGuard(depth, cfg)
    /\ \E r \in {Iterate(EngineState, graph.edges, cfg, depth)} :
           /\ ~r.brk
           /\ SetEngineState(r.st)
           /\ graph' = InputGraphAfterWrites(graph, r.st.nodeMap)
    /\ depth' = depth + 1
    /\ UNCHANGED <<shocks, cfg, pc>>
    /\ UNCHANGED <<firstResult, aggVars, simVars, buildVars>>

\* The iteration that finds no significant delta: break.
BreakLoop ==
    /\ pc = "loop"
    /\ LoopGuard(depth, cfg)
    /\ Iterate(EngineState, graph.edges, cfg, depth).brk
    /\ pc' = "done"
    /\ UNCHANGED <<graph, shocks, cfg, nodeMap, currentDeltas, nodeDeltas, nodeOrders,
                   steps, depth>>
    /\ UNCHANGED <<firstResult, aggVars, simVars, buildVars>>

\* depth has passed maxDepth: the loop ends.
ExitLoop ==
    /\ pc = "loop"
    /\ ~LoopGuard(depth, cfg)
    /\ pc' = "done"
    /\ UNCHANGED <<graph, shocks, cfg, nodeMap, currentDeltas, nodeDeltas, nodeOrders,
                   steps, depth>>
    /\ UNCHANGED <<firstResult, aggVars, simVars, buildVars>>

NextProp == ApplyInitialShocks \/ PropagateStep \/ BreakLoop \/ ExitLoop

SpecProp == InitProp /\ [][NextProp]_vars

\* The call runs to completion: nothing preempts a synchronous function.
FairSpecProp == SpecProp /\ WF_vars(NextProp)

\* What the call returns.
EngineResult ==
    [graph |-> [nodes |-> [i \in 1..Len(nodeMap) |-> nodeMap[i].v], edges |-> graph.edges],
     steps |-> steps, nodeDeltas |-> nodeDeltas, nodeOrders |-> nodeOrders]

\* propagate is called a second time with the same argument objects.
CallAgain ==
    /\ pc = "done"
    /\ firstResult = <<>>
    /\ firstResult' = <<EngineResult>>
    /\ nodeMap' = InitNodeMap(graph.nodes)
    /\ currentDeltas' = <<>>
    /\ nodeDeltas' = <<>>
    /\ nodeOrders' = <<>>
    /\ steps' = <<>>
    /\ depth' = 0
    /\ pc' = "start"
    /\ UNCHANGED <<graph, shocks, cfg, aggVars, simVars, buildVars>>

NextTwice == NextProp \/ CallAgain

SpecTwice == InitProp /\ [][NextTwice]_vars

----------------------------------------------------------------------------
(* Timeframe scaler and aggregator as a state machine *)

MaxWeeks == 3

SynthDeltas == {-2 * DeltaScale, -DeltaScale, 0, DeltaScale, 3 * DeltaScale}

SynthNode(id, category, delta) ==
    [id |-> id, category |-> category, delta |-> delta,
     order |-> IF delta = 0 THEN 0 ELSE 2]

SynthEdges ==
    << TestEdge(0, "b0", "e1", 1, 1000, 0),
       [TestEdge(1, "b0", "e2", -1, 500, 0) EXCEPT !.confidence = 900],
       [TestEdge(2, "e1", "e2", 1, 500, 0) EXCEPT !.confidence = 700],
       TestEdge(3, "b0", "w1", 1, 1000, 1) >>

\* Graphs as propagate returns them, with chosen final deltas: three
\* emissions nodes, one water node, one waste node, below a behavior node.
SynthGraphs ==
    {[nodes |-> << [id |-> "b0", category |-> "behavior", delta |-> -DeltaScale,
                    order |-> 1],
                   SynthNode("e1", "emissions", d1), SynthNode("e2", "emissions", d2),
                   SynthNode("w1", "water", d4), SynthNode("e3", "emissions", d3),
                   SynthNode("s1", "waste", d5), SynthNode("r1", "rebound", d6) >>,
      edges |-> SynthEdges] :
        d1 \in SynthDeltas, d2 \in SynthDeltas, d3 \in SynthDeltas,
        d4 \in {0, DeltaScale}, d5 \in {-DeltaScale, 0}, d6 \in {0, DeltaScale}}

\* nodeOrders as propagate leaves it for the nodes of a graph it returns.
OrdersOf(g) ==
    FoldLeft(LAMBDA m, n : IF n.order # 0 THEN MapSet(m, n.id, n.order) ELSE m,
             <<>>, g.nodes)

\* What the handler passes on (the graph and nodeOrders of a propagation
\* result), and the synthetic graphs.
AggInputs ==
    {[graph |-> r.graph, nodeOrders |-> r.nodeOrders] :
        r \in {propagate(in.graph, in.shocks, in.cfg) : in \in PipelineInputs}}
    \cup {[graph |-> g, nodeOrders |-> OrdersOf(g)] : g \in SynthGraphs}

InitAgg ==
    /\ \E in \in AggInputs :
          /\ resultGraph = in.graph
          /\ resultOrders = in.nodeOrders
    /\ scaledBy = 0
    /\ finalGraph = EmptyGraph
    /\ totals = <<>>
    /\ effects = <<>>
    /\ topDrivers = <<>>
    /\ apc = "propagated"
    /\ EngineIdle
    /\ SimIdle
    /\ BuildIdle

\* scaleGraphByTimeframe(propagationResult.graph, k)
ScaleGraph ==
    /\ apc = "propagated"
    /\ \E k \in 1..MaxWeeks :
          /\ finalGraph' = scaleGraphByTimeframe(resultGraph, k)
          /\ scaledBy' = k
    /\ apc' = "final"
    /\ UNCHANGED <<resultGraph, resultOrders, totals, effects, topDrivers, engineVars,
                   firstResult, simVars, buildVars>>

\* timeframe is not above 1: finalGraph is propagationResult.graph itself.
KeepGraph ==
    /\ apc = "propagated"
    /\ finalGraph' = resultGraph
    /\ apc' = "final"
    /\ UNCHANGED <<resultGraph, resultOrders, scaledBy, totals, effects, topDrivers,
                   engineVars, firstResult, simVars, buildVars>>

\* calculateTotals(finalGraph)
CalculateTotals ==
    /\ apc = "final"
    /\ totals' = <<calculateTotals(finalGraph)>>
    /\ apc' = "aggregated"
    /\ UNCHANGED <<resultGraph, resultOrders, scaledBy, finalGraph, effects, topDrivers,
                   engineVars, firstResult, simVars, buildVars>>

\* The effect lists and the top drivers (the default limit is 5).
ExtractEffects ==
    /\ apc = "aggregated"
    /\ effects' = <<[firstOrderEffects |-> extractFirstOrderEffects(finalGraph, resultOrders),
                     downstreamEffects |-> extractDownstreamEffects(finalGraph, resultOrders),
                     reboundEffects |->
                        extractReboundEffects(finalGraph, resultOrders, totals[1])]>>
    /\ topDrivers' = <<identifyTopDrivers(finalGraph, totals[1], 5)>>
    /\ apc' = "extracted"
    /\ UNCHANGED <<resultGraph, resultOrders, scaledBy, finalGraph, totals, engineVars,
                   firstResult, simVars, buildVars>>

NextAgg == ScaleGraph \/ KeepGraph \/ CalculateTotals \/ ExtractEffects

SpecAgg == InitAgg /\ [][NextAgg]_vars

----------------------------------------------------------------------------
(* The simulate endpoint as a state machine *)

MaxRequests == 2

Input(scenarioType, frequency, adoptionRate, timeframe, assumptions) ==
    [scenarioType |-> scenarioType, frequency |-> frequency, adoptionRate |-> adoptionRate,
     timeframe |-> timeframe, assumptions |-> assumptions]

\* A request body {query?, scenario?, overrides?}; overrides is a Map
\* (empty when the body has none).
Body(query, scenario, overrides) ==
    [query |-> query, scenario |-> scenario, overrides |-> overrides]

Override(id, value) == <<[k |-> id, v |-> value]>>

\* A structured request for a kind with every other field left out.
Plain(kind, overrides) ==
    Body(<<>>, <<Input(<<kind>>, <<>>, <<>>, <<>>, <<>>)>>, overrides)

Query(found, frequency, percent) ==
    [found |-> found, frequency |-> frequency, percent |-> percent]

RequestBodies ==
    { Body(<<>>, <<>>, <<>>),
      Plain("food_substitution", <<>>),
      Plain("transport_substitution", <<>>),
      Plain("plastic_ban", <<>>),
      Plain("reusable_adoption", <<>>),
      Plain("food_substitution", Override("beef_co2_per_kg", 99000)),
      Plain("food_substitution", Override("beef_co2_per_kg", 1000)),
      Plain("plastic_ban", Override("plastic_bag_co2", 50)),
      Plain("transport_substitution", Override("no_such_assumption", 1000)),
      Plain("transport_substitution", Override("trip_distance", 16000)),
      Plain("food_substitution",
            Override("beef_co2_per_kg", 1000) \o Override("no_such_assumption", 5)),
      Plain("composting", Override("beef_co2_per_kg", 1000)),
      Body(<<>>,
           <<Input(<<"plastic_ban">>, <<>>, <<>>, <<>>,
                   << <<TA("adoption_rate", 500)>> >>)>>,
           Override("adoption_rate", 1000)),
      Body(<<>>,
           <<Input(<<>>, <<MaxFrequency>>, <<500>>, <<MaxWeeks>>, <<>>)>>,
           <<>>),
      Body(<<>>, <<Input(<<"plastic_ban">>, <<>>, <<1500>>, <<>>, <<>>)>>, <<>>),
      Body(<<Query({"plastic", "bag", "ban", "city"}, <<>>, <<80>>)>>, <<>>, <<>>),
      Body(<<Query({"beef", "chicken", "i "}, <<2>>, <<>>)>>, <<>>,
           Override("rebound_rate", 0)) }

InitSim ==
    /\ registry = LoadedRegistry
    /\ aiConfig \in BOOLEAN
    /\ requests = <<>>
    /\ EngineIdle
    /\ AggIdle
    /\ BuildIdle

\* Step 1 of the handler.
Parse(body) ==
    IF body.query # <<>> THEN parseQuery(body.query[1])
    ELSE parseStructuredInput(body.scenario[1])

\* scenario.assumptions, read through the reference.
ScenarioAssumptions(reg, scenario) ==
    IF scenario.ref = "registry" THEN reg[scenario.scenarioType] ELSE scenario.own

\* Step 2 of the handler: the override loop writes into the objects
\* scenario.assumptions refers to.
RegistryAfterOverrides(scenario, overrides) ==
    IF scenario.ref = "registry"
    THEN [registry EXCEPT ![scenario.scenarioType] = applyOverrides(@, overrides)]
    ELSE registry

ScenarioAfterOverrides(scenario, overrides) ==
    IF scenario.ref = "registry" THEN scenario
    ELSE [scenario EXCEPT !.own = applyOverrides(@, overrides)]

Request(body, stage, scenario, used, result, response) ==
    [body |-> body, stage |-> stage, scenario |-> scenario, used |-> used,
     result |-> result, response |-> response]

\* Step 9 of the handler: the response body, serialised when it is sent.
SuccessResponse(scenario, result, assumptions) ==
    [status |-> 200, success |-> TRUE,
     result |-> [graph |-> result.graph, propagationSteps |-> result.propagationSteps,
                 totals |-> result.totals, assumptions |-> assumptions,
                 scenarioType |-> scenario.scenarioType]]

\* res.status(400): the body is not a usable request.
ValidationStatus == 400

\* res.status(500): the catch block around the whole handler.
InternalErrorStatus == 500

ErrorResponse(status, error) == [status |-> status, success |-> FALSE, error |-> error]

\* A body with neither query nor scenario: 400.
RejectRequest ==
    /\ Len(requests) < MaxRequests
    /\ \E body \in RequestBodies :
          /\ body.query = <<>> /\ body.scenario = <<>>
          /\ requests' = Append(requests,
                 Request(body, "responded", <<>>, <<>>, <<>>,
                         ErrorResponse(ValidationStatus,
                                       "Must provide either query or scenario")))
    /\ UNCHANGED <<registry, aiConfig, engineVars, firstResult, aggVars, buildVars>>

\* buildGraph throws for an unregistered kind, after the override loop ran:
\* the catch block answers 500.
FailRequest ==
    /\ Len(requests) < MaxRequests
    /\ \E body \in RequestBodies :
          /\ ~(body.query = <<>> /\ body.scenario = <<>>)
          /\ \E parsed \in {Parse(body)} :
                /\ parsed.scenarioType \notin KnownKinds
                /\ registry' = RegistryAfterOverrides(parsed, body.overrides)
                /\ requests' = Append(requests,
                       Request(body, "responded",
                               ScenarioAfterOverrides(parsed, body.overrides), <<>>, <<>>,
                               ErrorResponse(InternalErrorStatus, "Unknown scenario type")))
    /\ UNCHANGED <<aiConfig, engineVars, firstResult, aggVars, buildVars>>

\* The handler from its first line to the response, no API key configured:
\* nothing is awaited.
Simulate ==
    /\ Len(requests) < MaxRequests
    /\ ~aiConfig
    /\ \E body \in RequestBodies :
          /\ ~(body.query = <<>> /\ body.scenario = <<>>)
          /\ \E parsed \in {Parse(body)} :
                /\ parsed.scenarioType \in KnownKinds
                /\ \E reg \in {RegistryAfterOverrides(parsed, body.overrides)},
                      scenario \in {ScenarioAfterOverrides(parsed, body.overrides)} :
                      \E result \in {runSimulation(scenario,
                                                   ScenarioAssumptions(reg, scenario))} :
                         /\ registry' = reg
                         /\ requests' = Append(requests,
                                Request(body, "responded", scenario,
                                        ScenarioAssumptions(reg, scenario), <<result>>,
                                        SuccessResponse(scenario, result,
                                            ScenarioAssumptions(reg, scenario))))
    /\ UNCHANGED <<aiConfig, engineVars, firstResult, aggVars, buildVars>>

\* The handler from its first line to the await of the narrative and the
\* limitations (an API key is configured).
SimulateUntilAwait ==
    /\ Len(requests) < MaxRequests
    /\ aiConfig
    /\ \E body \in RequestBodies :
          /\ ~(body.query = <<>> /\ body.scenario = <<>>)
          /\ \E parsed \in {Parse(body)} :
                /\ parsed.scenarioType \in KnownKinds
                /\ \E reg \in {RegistryAfterOverrides(parsed, body.overrides)},
                      scenario \in {ScenarioAfterOverrides(parsed, body.overrides)} :
                      \E result \in {runSimulation(scenario,
                                                   ScenarioAssumptions(reg, scenario))} :
                         /\ registry' = reg
                         /\ requests' = Append(requests,
                                Request(body, "generating", scenario,
                                        ScenarioAssumptions(reg, scenario), <<result>>,
                                        <<>>))
    /\ UNCHANGED <<aiConfig, engineVars, firstResult, aggVars, buildVars>>

\* The awaited promises resolve: the handler compiles and sends the response.
ResumeAndRespond ==
    /\ \E i \in 1..Len(requests) :
          /\ requests[i].stage = "generating"
          /\ requests' = [requests EXCEPT
                ![i].stage = "responded",
                ![i].response = SuccessResponse(requests[i].scenario, requests[i].result[1],
                                    ScenarioAssumptions(registry, requests[i].scenario))]
    /\ UNCHANGED <<registry, aiConfig, engineVars, firstResult, aggVars, buildVars>>

NextSim == RejectRequest \/ FailRequest \/ Simulate \/ SimulateUntilAwait \/ ResumeAndRespond

SpecSim == InitSim /\ [][NextSim]_vars

----------------------------------------------------------------------------
(* Repeated builds on the loaded templates *)

MaxBuilds == 2

\* Geography hints by the region words their lower-cased text contains.
Geographies == {{}, {"california"}, {"midwest"}}

InitBuild ==
    /\ templates = LoadedTemplates
    /\ builds = <<>>
    /\ EngineIdle
    /\ AggIdle
    /\ SimIdle

\* buildGraph(scenario) for a kind that has a template, on the templates as
\* they are.
Build ==
    /\ Len(builds) < MaxBuilds
    /\ \E kind \in BuildKinds, adoptionRate \in AdoptionRates, geography \in Geographies :
          \E scenario \in {Scenario(kind, 2, adoptionRate, 1, geography)} :
             /\ builds' = Append(builds,
                    [scenario |-> scenario,
                     graph |-> instantiateTemplate(templates[kind], scenario)])
             /\ templates' = [templates EXCEPT
                                ![kind] = TemplateAfterBuild(templates[kind], scenario)]
    /\ UNCHANGED <<engineVars, firstResult, aggVars, simVars>>

NextBuild == Build

SpecBuild == InitBuild /\ [][NextBuild]_vars

----------------------------------------------------------------------------
(* Properties of the simulate endpoint *)

\* The requests that were answered with a simulation result.
Answered == {i \in 1..Len(requests) :
                requests[i].stage = "responded" /\ requests[i].response.success}

\* C1: after any sequence of simulate requests, overrides included, the
\* registry's default assumption values equal their load-time values, and a
\* request without overrides that takes its assumptions from the template
\* runs with, and reports, the template's defaults.
C1_RegistryKeepsDefaults ==
    /\ \A kind \in KnownKinds : registry[kind] = defaultAssumptions(kind)
    /\ \A i \in Answered :
          requests[i].scenario.ref = "registry" /\ requests[i].body.overrides = <<>> =>
              /\ requests[i].used = defaultAssumptions(requests[i].scenario.scenarioType)
              /\ requests[i].response.result.assumptions =
                     defaultAssumptions(requests[i].scenario.scenarioType)

\* C2: the assumptions list in each response holds exactly the values that
\* request itself used when it created its shocks and propagated, whatever
\* other requests did while it was suspended.
C2_ResponseReportsOwnAssumptions ==
    \A i \in Answered : requests[i].response.result.assumptions = requests[i].used

----------------------------------------------------------------------------
(* Properties of the propagation engine *)

NodeOf(nmap, id) == nmap[MapIdx(nmap, id)].v

\* The ids a step record lists.
AffectedIds(stepRecord) ==
    {stepRecord.affectedNodes[k].nodeId : k \in 1..Len(stepRecord.affectedNodes)}

HasCycle(edges) ==
    \E i, j \in 1..Len(edges) :
        /\ edges[i].source = edges[j].target
        /\ edges[i].target = edges[j].source
        /\ edges[i].lagSteps = 0 /\ edges[j].lagSteps = 0

\* C4: for any finite graph, cycles included, and any shock list, propagate
\* terminates and the trace never has more than maxDepth + 1 steps (6 with
\* the default config).
C4_TerminatesWithinMaxDepth ==
    /\ <>(pc = "done")
    /\ [](/\ Len(steps) <= cfg.maxDepth + 1
          /\ (cfg = DEFAULT_CONFIG => Len(steps) <= 6))

\* A call on a cyclic graph that ran into the hard cutoff.
C4_Witness ==
    /\ pc = "done"
    /\ cfg = DEFAULT_CONFIG
    /\ HasCycle(graph.edges)
    /\ Len(steps) = 6

\* C5: a node's order is assigned at most once: it leaves 0 only in a step
\* that lists the node, to that step's index + 1 (1 for a shock, depth + 1
\* in the loop), and a set order never changes again; the same holds of the
\* nodeOrders entries.
C5_OrderAssignedOnce ==
    [][/\ \A i \in 1..Len(nodeMap) :
            LET id == nodeMap[i].k
                old == nodeMap[i].v.order
                new == nodeMap'[i].v.order
                listed == /\ Len(steps') = Len(steps) + 1
                          /\ id \in AffectedIds(steps'[Len(steps')])
            IN  /\ old # 0 => new = old
                /\ old = 0 /\ new # 0 =>
                      /\ listed
                      /\ new = steps'[Len(steps')].step + 1
                      /\ new = IF pc = "start" THEN 1 ELSE depth + 1
                /\ old = 0 /\ listed => new # 0
       /\ \A i \in 1..Len(nodeOrders) :
            /\ i <= Len(nodeOrders')
            /\ nodeOrders'[i] = nodeOrders[i]
      ]_vars

\* A shocked node was hit again through a cycle and still has order 1.
C5_Witness ==
    /\ pc = "done"
    /\ \E i \in 1..Len(nodeMap) :
          /\ nodeMap[i].k = "paper_bag_use"
          /\ nodeMap[i].v.order = 1
          /\ "paper_bag_use" \in AffectedIds(steps[1])
          /\ \E s \in 2..Len(steps) : "paper_bag_use" \in AffectedIds(steps[s])

\* The amount id receives in step d by linear superposition: the shocks aimed
\* at it (d = 0), else every retained lag-0 contribution computed from what
\* the edge's source received in step d - 1.
RECURSIVE Received(_, _)
Received(d, id) ==
    IF d = 0
    THEN SeqSum([i \in 1..Len(shocks) |->
                   IF shocks[i].nodeId = id THEN shocks[i].delta ELSE 0])
    ELSE SeqSum([i \in 1..Len(graph.edges) |->
                   LET e == graph.edges[i]
                       c == IF e.target = id /\ e.lagSteps = 0
                            THEN MulMilli(MulMilli(Received(d - 1, e.source) * e.sign,
                                                   e.strength), cfg.decayFactor)
                            ELSE 0
                   IN  IF Abs(c) >= cfg.epsilon THEN c ELSE 0])

\* C6: linear superposition: at return each node's delta is the sum of the
\* shocks aimed at it plus every retained contribution into it over all
\* iteration depths; nothing is overwritten or lost.
C6_LinearSuperposition ==
    pc = "done" =>
        \A i \in 1..Len(nodeMap) :
            nodeMap[i].v.delta =
                SeqSum([d \in 1..(cfg.maxDepth + 1) |-> Received(d - 1, nodeMap[i].k)])

----------------------------------------------------------------------------
(* Properties of the scaler and the aggregator *)

Metrics == {"carbon", "water", "waste"}

CategoryOfMetric(metric) ==
    CASE metric = "carbon" -> "emissions"
      [] metric = "water" -> "water"
      [] metric = "waste" -> "waste"

\* The sum of the percentages of a breakdown is 100: all its fractions have
\* the same denominator.
PercentagesSumTo100(breakdown) ==
    /\ Len(breakdown) > 0
    /\ \A i \in 1..Len(breakdown) : breakdown[i].percentage.den = breakdown[1].percentage.den
    /\ SeqSum([i \in 1..Len(breakdown) |-> breakdown[i].percentage.num])
           = 100 * breakdown[1].percentage.den

\* C7: for each category result of calculateTotals whose value is nonzero,
\* the percentages of its breakdown entries sum to 100, also when the
\* contributing nodes have deltas of opposite sign.
C7_PercentagesSumTo100 ==
    apc = "aggregated" =>
        \A metric \in Metrics :
            totals[1][metric].value # 0 =>
                PercentagesSumTo100(totals[1][metric].breakdown)

\* The nodes of a category with nonzero delta, as indices into the node list.
Contributing(g, category) ==
    {i \in 1..Len(g.nodes) : g.nodes[i].category = category /\ g.nodes[i].delta # 0}

\* C8: for each category result of calculateTotals the contributions of the
\* breakdown entries sum to the value, the breakdown holds exactly the nodes
\* of that category with nonzero delta (each once, with its delta), and the
\* entries are in descending order of absolute contribution.
C8_BreakdownConservesAndSorted ==
    apc = "aggregated" =>
        \A metric \in Metrics :
            LET res == totals[1][metric]
                b == res.breakdown
                nodes == Contributing(finalGraph, CategoryOfMetric(metric))
            IN  /\ SeqSum([i \in 1..Len(b) |-> b[i].contribution]) = res.value
                /\ Len(b) = Cardinality(nodes)
                /\ \A n \in nodes :
                      \E i \in 1..Len(b) :
                          /\ b[i].nodeId = finalGraph.nodes[n].id
                          /\ b[i].contribution = finalGraph.nodes[n].delta
                /\ \A i \in 1..Len(b) :
                      \E n \in nodes : b[i].nodeId = finalGraph.nodes[n].id
                /\ \A i, j \in 1..Len(b) :
                      i < j => Abs(b[i].contribution) >= Abs(b[j].contribution)

\* A carbon breakdown of three entries of both signs whose node order is not
\* the sorted order.
C8_Witness ==
    /\ apc = "aggregated"
    /\ Len(totals[1].carbon.breakdown) >= 3
    /\ \E i, j \in 1..Len(totals[1].carbon.breakdown) :
          totals[1].carbon.breakdown[i].contribution < 0
          /\ totals[1].carbon.breakdown[j].contribution > 0
    /\ \E m, n \in Contributing(finalGraph, "emissions") :
          m < n /\ Abs(finalGraph.nodes[m].delta) < Abs(finalGraph.nodes[n].delta)

\* C9: scaleGraphByTimeframe(graph, k) returns for every node a node with
\* delta k times the input node's delta (0 stays 0) and the same id, category
\* and order, and the same edge list; the input graph is not modified.
C9_LinearScaling ==
    /\ [](scaledBy >= 1 =>
            /\ Len(finalGraph.nodes) = Len(resultGraph.nodes)
            /\ \A i \in 1..Len(resultGraph.nodes) :
                  /\ finalGraph.nodes[i].delta = scaledBy * resultGraph.nodes[i].delta
                  /\ finalGraph.nodes[i].id = resultGraph.nodes[i].id
                  /\ finalGraph.nodes[i].category = resultGraph.nodes[i].category
                  /\ finalGraph.nodes[i].order = resultGraph.nodes[i].order
            /\ finalGraph.edges = resultGraph.edges)
    /\ [][resultGraph' = resultGraph]_vars

\* A graph with edges was scaled by more than one week: it has a node with
\* nonzero delta and order and a node with delta 0.
C9_Witness ==
    /\ scaledBy >= 2
    /\ Len(finalGraph.edges) > 0
    /\ \E i \in 1..Len(finalGraph.nodes) :
          finalGraph.nodes[i].delta # 0 /\ finalGraph.nodes[i].order > 1
    /\ \E i \in 1..Len(finalGraph.nodes) :
          finalGraph.nodes[i].delta = 0 /\ resultGraph.nodes[i].delta = 0

----------------------------------------------------------------------------
(* A concrete run *)

FoodRun(frequency) ==
    /\ graph = buildGraph(Scenario("food_substitution", frequency, 1000, 1, {}))
    /\ shocks = createShocksFromScenario("food_substitution", frequency,
                                         defaultAssumptions("food_substitution"))
    /\ cfg = DEFAULT_CONFIG

\* C10: food_substitution, frequency 2, default config: the shock on
\* beef_consumption is -0.5, step 1 gives beef_emissions -0.38 through the
\* one edge from beef_consumption, and beef_emissions ends with order 2.
C10_FoodSubstitutionConcrete ==
    FoodRun(2) =>
        /\ shocks[1] = Shock("beef_consumption", -(DeltaScale \div 2))
        /\ Len(steps) >= 2 =>
              \E k \in 1..Len(steps[2].affectedNodes) :
                  steps[2].affectedNodes[k] =
                      [nodeId |-> "beef_emissions", delta |-> -38 * (DeltaScale \div 100),
                       contributingEdges |-> <<<<0, "beef_consumption", "beef_emissions">>>>]
        /\ pc = "done" =>
              /\ Len(steps) >= 2
              /\ NodeOf(nodeMap, "beef_emissions").order = 2
              /\ MapGet(nodeOrders, "beef_emissions") = 2

C10_Witness == pc = "done" /\ FoodRun(2) /\ NodeOf(nodeMap, "beef_emissions").delta # 0

----------------------------------------------------------------------------
(* Lagged edges, malformed data, multi-path accumulation *)

\* id is not shocked and every edge into it is lagged.
LagOnly(id) ==
    /\ \A i \in 1..Len(shocks) : shocks[i].nodeId # id
    /\ \A i \in 1..Len(graph.edges) :
          graph.edges[i].target = id => graph.edges[i].lagSteps > 0

EdgeById(id) == CHOOSE i \in 1..Len(graph.edges) : graph.edges[i].id = id

----------------------------------------------------------------------------
(* Division by zero in the Aggregator *)

IsZero(p) == p.num = 0 /\ p.den # 0

Extracted == apc = "extracted"

DriverCategory(nodeId) ==
    finalGraph.nodes[CHOOSE i \in 1..Len(finalGraph.nodes) :
                        finalGraph.nodes[i].id = nodeId].category

\* C12: wherever the Aggregator divides by a category total, a total of
\* exactly 0 gives 0: every percentage of that category's breakdown is 0,
\* every top driver of a node of that category has influence 0, and with a
\* carbon total of 0 every rebound effect has offsetPercentage 0.
C12_ZeroTotalGivesZero ==
    Extracted =>
        /\ \A metric \in Metrics :
              totals[1][metric].value = 0 =>
                 /\ \A i \in 1..Len(totals[1][metric].breakdown) :
                       IsZero(totals[1][metric].breakdown[i].percentage)
                 /\ \A i \in 1..Len(topDrivers[1]) :
                       DriverCategory(topDrivers[1][i].nodeId) = CategoryOfMetric(metric)
                          => IsZero(topDrivers[1][i].influence)
        /\ totals[1].carbon.value = 0 =>
              \A i \in 1..Len(effects[1].reboundEffects) :
                 IsZero(effects[1].reboundEffects[i].offsetPercentage)

\* Emission deltas that cancel to a carbon total of 0, with an emissions
\* driver and a rebound effect in the result.
C12_Witness ==
    /\ Extracted
    /\ totals[1].carbon.value = 0
    /\ Len(totals[1].carbon.breakdown) >= 2
    /\ Len(effects[1].reboundEffects) >= 1
    /\ \E i \in 1..Len(topDrivers[1]) : DriverCategory(topDrivers[1][i].nodeId) = "emissions"

----------------------------------------------------------------------------
(* Error outcomes of the simulate handler *)

Responded == {i \in 1..Len(requests) : requests[i].stage = "responded"}

HasInput(body) == ~(body.query = <<>> /\ body.scenario = <<>>)

UnknownKind(body) == HasInput(body) /\ Parse(body).scenarioType \notin KnownKinds

\* C13: a request for a kind that is not registered is answered with a
\* validation error, which is not the outcome of the catch block that answers
\* internal failures, and nothing was simulated for it; a request for a
\* registered kind is never answered with a validation error.
C13_UnknownKindIsValidationError ==
    \A i \in Responded :
        /\ UnknownKind(requests[i].body) =>
              /\ ~requests[i].response.success
              /\ requests[i].response.status = ValidationStatus
              /\ requests[i].response.status # InternalErrorStatus
              /\ requests[i].result = <<>>
        /\ HasInput(requests[i].body) /\ ~UnknownKind(requests[i].body) =>
              requests[i].response.status # ValidationStatus

\* The ids of the assumptions a parsed scenario refers to.
AssumptionIds(scenario) ==
    {ScenarioAssumptions(registry, scenario)[k].id :
        k \in 1..Len(ScenarioAssumptions(registry, scenario))}

\* The overrides of a body without the entries that name no assumption.
KnownOverrides(body) ==
    SelectSeq(body.overrides, LAMBDA o : o.k \in AssumptionIds(Parse(body)))

HasUnknownOverride(body) ==
    /\ HasInput(body)
    /\ ~UnknownKind(body)
    /\ KnownOverrides(body) # body.overrides

\* C14: an override entry whose key is the id of no assumption of the
\* scenario changes nothing: the handler leaves the registry, the scenario,
\* the assumptions it runs with and the whole simulation result (graph with
\* its node deltas, step trace, totals) as it would for the same body
\* without that entry, and the request is answered with success.
C14_UnknownOverrideIsNoOp ==
    [][\A i \in 1..Len(requests') :
          HasUnknownOverride(requests'[i].body) =>
             /\ requests'[i].stage = "responded" => requests'[i].response.success
             /\ i > Len(requests) =>
                   LET body == requests'[i].body
                       reg == RegistryAfterOverrides(Parse(body), KnownOverrides(body))
                       scenario == ScenarioAfterOverrides(Parse(body), KnownOverrides(body))
                   IN  /\ registry' = reg
                       /\ requests'[i].scenario = scenario
                       /\ requests'[i].used = ScenarioAssumptions(reg, scenario)
                       /\ requests'[i].result =
                             <<runSimulation(scenario, ScenarioAssumptions(reg, scenario))>>]_vars

\* A request with one override that names an assumption and one that names
\* none has been answered.
C14_Witness ==
    \E i \in Responded :
        /\ requests[i].response.success
        /\ \E k \in 1..Len(requests[i].body.overrides) :
              requests[i].body.overrides[k].k = "no_such_assumption"
        /\ \E k \in 1..Len(requests[i].body.overrides) :
              requests[i].body.overrides[k].k = "beef_co2_per_kg"
        /\ \E k \in 1..Len(requests[i].used) :
              /\ requests[i].used[k].id = "beef_co2_per_kg"
              /\ requests[i].used[k].value = 1000

----------------------------------------------------------------------------
(* Malformed shocks and edges *)

NodeIds(g) == {g.nodes[i].id : i \in 1..Len(g.nodes)}

\* The graph without the edges that name an id outside its node set, and
\* the shocks without those on such an id.
WellFormedGraph(g) ==
    [g EXCEPT !.edges = SelectSeq(g.edges, LAMBDA e : /\ e.source \in NodeIds(g)
                                                      /\ e.target \in NodeIds(g))]

WellFormedShocks(g, shockList) == SelectSeq(shockList, LAMBDA sh : sh.nodeId \in NodeIds(g))

\* C15: shocks on ids outside the node set and edges with a source or target
\* outside it are inert: every node of the graph ends with the delta and the
\* order it gets when those shocks and edges are left out.
C15_MalformedDataInert ==
    pc = "done" =>
        EngineResult.graph.nodes =
            propagate(WellFormedGraph(graph), WellFormedShocks(graph, shocks), cfg).graph.nodes

----------------------------------------------------------------------------
(* Shock creation *)

ShockNodes(kind) == {graphTemplates(kind).shockNodes[k] :
                        k \in 1..Len(graphTemplates(kind).shockNodes)}

\* The shocks the handler creates for a request it parsed.
CreatedShocks(request) ==
    createShocksFromScenario(request.scenario.scenarioType, request.scenario.frequency,
                             request.used)

\* C16: the shocks created for a request of a registered kind all target
\* shock nodes of that kind's template and none targets a shock node of
\* another kind only (one formula ran); step 0 of the run touches shock nodes
\* only; for a kind that is not registered no shock is created.
C16_ShocksTargetShockNodes ==
    \A i \in 1..Len(requests) :
        requests[i].scenario # <<>> =>
            LET kind == requests[i].scenario.scenarioType
                created == CreatedShocks(requests[i])
            IN  IF kind \in KnownKinds
                THEN /\ created # <<>>
                     /\ \A k \in 1..Len(created) :
                           /\ created[k].nodeId \in ShockNodes(kind)
                           /\ \A other \in KnownKinds \ {kind} :
                                 created[k].nodeId \notin ShockNodes(other)
                     /\ requests[i].result # <<>> =>
                           AffectedIds(requests[i].result[1].propagationSteps[1])
                              \subseteq ShockNodes(kind)
                ELSE created = <<>>

\* A plastic_ban request that brought its own adoption_rate has run, and a
\* request for an unregistered kind has been answered.
C16_Witness ==
    /\ \E i \in 1..Len(requests) :
          /\ requests[i].result # <<>>
          /\ requests[i].scenario.scenarioType = "plastic_ban"
          /\ requests[i].scenario.ref = "own"
          /\ Len(CreatedShocks(requests[i])) = 3
          /\ AffectedIds(requests[i].result[1].propagationSteps[1]) = ShockNodes("plastic_ban")
    /\ \E i \in Responded : UnknownKind(requests[i].body)

----------------------------------------------------------------------------
(* The builder leaves the templates alone *)

\* C17: after any sequence of builds every template node and edge equals
\* its load-time value; builds with the same scenario parameters return
\* equal graphs; every build returns what a build on the freshly loaded
\* template returns, whatever adoption rate or geography came before.
C17_TemplateUnmodified ==
    /\ templates = LoadedTemplates
    /\ \A i, j \in 1..Len(builds) :
          builds[i].scenario = builds[j].scenario => builds[i].graph = builds[j].graph
    /\ \A i \in 1..Len(builds) :
          builds[i].graph = instantiateTemplate(LoadedTemplates[builds[i].scenario.scenarioType],
                                                builds[i].scenario)

AdjustedThenPlain(first, second) ==
    /\ first.scenario.scenarioType = second.scenario.scenarioType
    /\ \E k \in 1..Len(first.graph.edges) :
          first.graph.edges[k].strength # second.graph.edges[k].strength
    /\ \A k \in 1..Len(second.graph.edges) :
          /\ second.graph.edges[k].strength =
                LoadedTemplates[second.scenario.scenarioType].edges[k].strength
          /\ second.graph.edges[k].rationale = <<>>

\* A build whose adoption rate changed edge strengths has been followed by
\* a build of the same kind at full adoption, or a build whose geography
\* changed strengths and rationales by one without a geography.
C17_Witness ==
    /\ Len(builds) = 2
    /\ AdjustedThenPlain(builds[1], builds[2])
    /\ \/ builds[1].scenario.scenarioType = "plastic_ban"
       \/ \E k \in 1..Len(builds[1].graph.edges) : builds[1].graph.edges[k].rationale # <<>>

----------------------------------------------------------------------------
(* Validation of the scenario fields *)

\* The body carries a structured scenario with an adoptionRate below 0 or
\* above 1.
AdoptionRateOutOfRange(body) ==
    /\ body.query = <<>>
    /\ body.scenario # <<>>
    /\ body.scenario[1].adoptionRate # <<>>
    /\ body.scenario[1].adoptionRate[1] \notin 0..Milli

\* C18: a request whose scenario adoptionRate lies outside [0, 1] is
\* answered with the 400 validation error and nothing is simulated for it.
C18_AdoptionRateOutOfRangeRejected ==
    \A i \in 1..Len(requests) :
        AdoptionRateOutOfRange(requests[i].body) =>
            /\ requests[i].result = <<>>
            /\ requests[i].stage = "responded"
            /\ requests[i].response.status = ValidationStatus

----------------------------------------------------------------------------
(* Range of the driver influence *)

\* C19: every driver identifyTopDrivers returns has an influence between 0
\* and 1, whatever the signs of the deltas within a category.
C19_InfluenceWithinUnitRange ==
    Extracted =>
        \A i \in 1..Len(topDrivers[1]) :
            /\ topDrivers[1][i].influence.den > 0
            /\ topDrivers[1][i].influence.num >= 0
            /\ topDrivers[1][i].influence.num <= topDrivers[1][i].influence.den

----------------------------------------------------------------------------
(* Multi-path accumulation *)

\* What edge i contributes in the iteration that starts from currentDeltas:
\* 0 unless its source changed by epsilon or more in the previous step, it
\* has no lag, and the contribution itself reaches epsilon.
StepContribution(i) ==
    LET e == graph.edges[i]
    IN  IF /\ MapHas(currentDeltas, e.source)
           /\ Abs(MapGet(currentDeltas, e.source)) >= cfg.epsilon
           /\ e.lagSteps = 0
           /\ Abs(TargetDelta(MapGet(currentDeltas, e.source), e, cfg)) >= cfg.epsilon
        THEN TargetDelta(MapGet(currentDeltas, e.source), e, cfg)
        ELSE 0

EdgesInto(id) ==
    {i \in 1..Len(graph.edges) : graph.edges[i].target = id /\ StepContribution(i) # 0}

StepSum(id) ==
    SeqSum([i \in 1..Len(graph.edges) |->
               IF graph.edges[i].target = id THEN StepContribution(i) ELSE 0])

ListedIn(stepRecord, id) ==
    {j \in 1..Len(stepRecord.affectedNodes) : stepRecord.affectedNodes[j].nodeId = id}

\* C20: in every iteration that records a step, a node reached by retained
\* contributions is listed once in the step record, with the sum of those
\* contributions as delta and one contributing edge per contribution, and
\* its delta grows by that sum; a node reached by none is not listed and
\* keeps its delta.  food_substitution, frequency 2: step 1 lists
\* feed_crop_land with 0.032, from two edges.
C20_MultiPathAccumulation ==
    [][Len(steps) >= 1 /\ Len(steps') = Len(steps) + 1 =>
          /\ \A k \in 1..Len(nodeMap) :
                LET id == nodeMap[k].k
                    record == steps'[Len(steps')]
                IN  IF EdgesInto(id) # {}
                    THEN /\ Cardinality(ListedIn(record, id)) = 1
                         /\ \A j \in ListedIn(record, id) :
                               /\ record.affectedNodes[j].delta = StepSum(id)
                               /\ Len(record.affectedNodes[j].contributingEdges) =
                                     Cardinality(EdgesInto(id))
                         /\ nodeMap'[k].v.delta = nodeMap[k].v.delta + StepSum(id)
                    ELSE /\ ListedIn(record, id) = {}
                         /\ nodeMap'[k].v.delta = nodeMap[k].v.delta
          /\ FoodRun(2) /\ Len(steps) = 1 =>
                \E j \in ListedIn(steps'[2], "feed_crop_land") :
                    /\ steps'[2].affectedNodes[j].delta = 32 * (DeltaScale \div 1000)
                    /\ Len(steps'[2].affectedNodes[j].contributingEdges) = 2]_vars

\* The food run with frequency 2 has returned, and its step 1 lists
\* feed_crop_land with two contributing edges.
C20_Witness ==
    /\ pc = "done"
    /\ FoodRun(2)
    /\ \E j \in ListedIn(steps[2], "feed_crop_land") :
          /\ Len(steps[2].affectedNodes[j].contributingEdges) = 2
          /\ steps[2].affectedNodes[j].delta # 0

----------------------------------------------------------------------------
(* Early termination *)

\* C21: an iteration of the loop ends the propagation without a step and
\* without an update exactly if no single edge contribution reaches epsilon;
\* otherwise the step is recorded and every node grows by the sum of the
\* retained contributions into it, even if they cancel below epsilon.
C21_StopsIffNoContribution ==
    [][pc = "loop" /\ LoopGuard(depth, cfg) =>
          IF \E i \in 1..Len(graph.edges) : StepContribution(i) # 0
          THEN /\ Len(steps') = Len(steps) + 1
               /\ \A k \in 1..Len(nodeMap) :
                     nodeMap'[k].v.delta = nodeMap[k].v.delta + StepSum(nodeMap[k].k)
          ELSE /\ steps' = steps
               /\ nodeMap' = nodeMap
               /\ pc' = "done"]_vars

----------------------------------------------------------------------------
(* Adoption scaling *)

\* The category the template gives the source node of its k-th edge.
SourceCategory(kind, k) ==
    LET template == LoadedTemplates[kind]
    IN  template.nodes[CHOOSE n \in 1..Len(template.nodes) :
                          template.nodes[n].id = template.edges[k].source].category

\* C22: without a geography hint, a build for plastic_ban or
\* reusable_adoption gives every edge that leaves a behavior node its
\* template strength times adoptionRate and every other edge its template
\* strength; a build for any other kind gives every edge its template
\* strength, whatever adoptionRate is.
C22_AdoptionScaling ==
    \A i \in 1..Len(builds) :
        builds[i].scenario.geography = {} =>
            LET kind == builds[i].scenario.scenarioType
                template == LoadedTemplates[kind]
            IN  /\ Len(builds[i].graph.edges) = Len(template.edges)
                /\ \A k \in 1..Len(template.edges) :
                      builds[i].graph.edges[k].strength =
                          IF /\ kind \in {"plastic_ban", "reusable_adoption"}
                             /\ SourceCategory(kind, k) = "behavior"
                          THEN MulMilli(template.edges[k].strength,
                                        builds[i].scenario.adoptionRate)
                          ELSE template.edges[k].strength

\* plastic_ban was built at half adoption, with a scaled and an unscaled
\* edge, and food_substitution at half adoption.
C22_Witness ==
    /\ Len(builds) = 2
    /\ builds[1].scenario = Scenario("plastic_ban", 2, 500, 1, {})
    /\ builds[2].scenario = Scenario("food_substitution", 2, 500, 1, {})
    /\ \E k \in 1..Len(builds[1].graph.edges) :
          /\ SourceCategory("plastic_ban", k) = "behavior"
          /\ builds[1].graph.edges[k].strength # LoadedTemplates["plastic_ban"].edges[k].strength
    /\ \E k \in 1..Len(builds[1].graph.edges) :
          /\ SourceCategory("plastic_ban", k) # "behavior"
          /\ builds[1].graph.edges[k].strength > 0

----------------------------------------------------------------------------
(* Zero-strength edges *)

\* The node is not shocked and every edge into it has strength 0.
ZeroStrengthOnly(id) ==
    /\ \A i \in 1..Len(shocks) : shocks[i].nodeId # id
    /\ \A i \in 1..Len(graph.edges) :
          graph.edges[i].target = id => graph.edges[i].strength = 0

\* C23: an edge of strength 0 contributes nothing: no step record names it
\* as a contributing edge, and a node reached by such edges only ends with
\* no delta and no order.
C23_ZeroStrengthEdgeInert ==
    /\ \A s \in 1..Len(steps) :
          \A j \in 1..Len(steps[s].affectedNodes) :
             \A e \in 1..Len(steps[s].affectedNodes[j].contributingEdges) :
                graph.edges[EdgeById(steps[s].affectedNodes[j].contributingEdges[e])].strength
                   # 0
    /\ \A k \in 1..Len(nodeMap) :
          ZeroStrengthOnly(nodeMap[k].k) =>
             /\ nodeMap[k].v.delta = 0
             /\ nodeMap[k].v.order = 0
             /\ ~MapHas(nodeOrders, nodeMap[k].k)
             /\ ~MapHas(nodeDeltas, nodeMap[k].k)

\* plastic_ban built with adoptionRate 0 has been propagated: the shocked
\* plastic_bag_use has zero-strength edges into nodes that stayed at 0.
C23_Witness ==
    /\ pc = "done"
    /\ MapHas(nodeMap, "plastic_bag_use")
    /\ Abs(NodeOf(nodeMap, "plastic_bag_use").delta) >= cfg.epsilon
    /\ \E i \in 1..Len(graph.edges) :
          /\ graph.edges[i].source = "plastic_bag_use"
          /\ graph.edges[i].strength = 0
          /\ graph.edges[i].lagSteps = 0
          /\ ZeroStrengthOnly(graph.edges[i].target)
          /\ NodeOf(nodeMap, graph.edges[i].target).delta = 0

----------------------------------------------------------------------------
(* The step trace *)

\* The delta step record s lists for the node, 0 if it does not list it.
ListedDelta(s, id) ==
    SeqSum([j \in 1..Len(steps[s].affectedNodes) |->
               IF steps[s].affectedNodes[j].nodeId = id
               THEN steps[s].affectedNodes[j].delta ELSE 0])

\* The deltas the step records 1..s list for the nodes of a category.
ListedUpTo(s, category) ==
    SeqSum([t \in 1..s |->
               SeqSum([j \in 1..Len(steps[t].affectedNodes) |->
                          IF NodeOf(nodeMap, steps[t].affectedNodes[j].nodeId).category
                                = category
                          THEN steps[t].affectedNodes[j].delta ELSE 0])])

\* C24: the steps are numbered 0, 1, ..., k and step 0 is there once the
\* shocks are applied; a step lists graph nodes only, each once, and what
\* the steps list for a node adds up to its delta; the cumulativeDelta of a
\* step is, per category, the sum of the deltas listed up to that step, and
\* that of the last step is the sum of the node deltas of the category.
C24_StepTrace ==
    /\ pc # "start" => Len(steps) >= 1
    /\ \A s \in 1..Len(steps) :
          /\ steps[s].step = s - 1
          /\ AffectedIds(steps[s]) \subseteq NodeIds(graph)
          /\ Cardinality(AffectedIds(steps[s])) = Len(steps[s].affectedNodes)
          /\ \A metric \in Metrics :
                steps[s].cumulativeDelta[metric] = ListedUpTo(s, CategoryOfMetric(metric))
    /\ \A k \in 1..Len(nodeMap) :
          nodeMap[k].v.delta =
              SeqSum([s \in 1..Len(steps) |-> ListedDelta(s, nodeMap[k].k)])
    /\ Len(steps) >= 1 =>
          \A metric \in Metrics :
              steps[Len(steps)].cumulativeDelta[metric] =
                  CategorySum(nodeMap, CategoryOfMetric(metric))

\* A run has returned with three steps or more, the last two of them
\* changing emissions nodes.
C24_Witness ==
    /\ pc = "done"
    /\ Len(steps) >= 3
    /\ steps[Len(steps)].cumulativeDelta.carbon # steps[Len(steps) - 1].cumulativeDelta.carbon
    /\ steps[Len(steps) - 1].cumulativeDelta.carbon # steps[1].cumulativeDelta.carbon

----------------------------------------------------------------------------
(* Downstream effects *)

FinalNode(id) ==
    finalGraph.nodes[CHOOSE i \in 1..Len(finalGraph.nodes) : finalGraph.nodes[i].id = id]

\* C25: the downstream effects are exactly the nodes with order above 1, a
\* nonzero delta and a category other than rebound, each once, with the
\* node's delta and min(order, 3) as order, sorted by that order and, within
\* one order, by falling absolute delta.
C25_DownstreamEffects ==
    Extracted =>
        LET list == effects[1].downstreamEffects
        IN  /\ {list[i].nodeId : i \in 1..Len(list)} =
                  {finalGraph.nodes[k].id : k \in
                      {k \in 1..Len(finalGraph.nodes) :
                          /\ finalGraph.nodes[k].order > 1
                          /\ finalGraph.nodes[k].delta # 0
                          /\ finalGraph.nodes[k].category # "rebound"}}
            /\ Cardinality({list[i].nodeId : i \in 1..Len(list)}) = Len(list)
            /\ \A i \in 1..Len(list) :
                  /\ list[i].delta = FinalNode(list[i].nodeId).delta
                  /\ list[i].order = Min(FinalNode(list[i].nodeId).order, 3)
            /\ \A i, j \in 1..Len(list) :
                  i < j => \/ list[i].order < list[j].order
                           \/ /\ list[i].order = list[j].order
                              /\ Abs(list[i].delta) >= Abs(list[j].delta)

\* The list holds effects of order 2 and of order 3, one of them of a node
\* of order 4 or more, and two of the same order with different deltas.
C25_Witness ==
    /\ Extracted
    /\ \E i, j \in 1..Len(effects[1].downstreamEffects) :
          /\ effects[1].downstreamEffects[i].order = 2
          /\ effects[1].downstreamEffects[j].order = 3
          /\ FinalNode(effects[1].downstreamEffects[j].nodeId).order > 3
    /\ \E i, j \in 1..Len(effects[1].downstreamEffects) :
          /\ effects[1].downstreamEffects[i].order = effects[1].downstreamEffects[j].order
          /\ Abs(effects[1].downstreamEffects[i].delta) >
                Abs(effects[1].downstreamEffects[j].delta)

----------------------------------------------------------------------------
(* Timeframe gating *)

\* max(1, timeframe) for the scenario of a request.
Weeks(request) == IF request.scenario.timeframe > 1 THEN request.scenario.timeframe ELSE 1

\* What the propagation steps of a result list for a node, added up.
PropagatedDelta(result, id) ==
    SeqSum([s \in 1..Len(result.propagationSteps) |->
               SeqSum([j \in 1..Len(result.propagationSteps[s].affectedNodes) |->
                          IF result.propagationSteps[s].affectedNodes[j].nodeId = id
                          THEN result.propagationSteps[s].affectedNodes[j].delta ELSE 0])])

\* C26: the final graph of a request holds the propagation deltas, times
\* the timeframe if that is above 1, and each category total is the last
\* propagation step's cumulative snapshot times max(1, timeframe).
C26_TimeframeGating ==
    \A i \in 1..Len(requests) :
        requests[i].result # <<>> =>
            LET result == requests[i].result[1]
                last == result.propagationSteps[Len(result.propagationSteps)]
            IN  /\ \A k \in 1..Len(result.graph.nodes) :
                      result.graph.nodes[k].delta =
                          Weeks(requests[i]) * PropagatedDelta(result, result.graph.nodes[k].id)
                /\ \A metric \in Metrics :
                      result.totals[metric].value =
                          Weeks(requests[i]) * last.cumulativeDelta[metric]

\* A request over several weeks and a request over one week have run, both
\* with a carbon total other than 0.
C26_Witness ==
    /\ \E i \in 1..Len(requests) :
          /\ requests[i].result # <<>>
          /\ requests[i].scenario.timeframe > 1
          /\ requests[i].result[1].totals.carbon.value # 0
    /\ \E i \in 1..Len(requests) :
          /\ requests[i].result # <<>>
          /\ requests[i].scenario.timeframe = 1
          /\ requests[i].result[1].totals.carbon.value # 0

----------------------------------------------------------------------------
(* propagate and its input *)

\* The graph with the delta and the order of every node set to 0.
WithoutDeltas(g) ==
    [g EXCEPT !.nodes = [i \in 1..Len(g.nodes) |->
                            [g.nodes[i] EXCEPT !.delta = 0, !.order = 0]]]

\* C27: no step of propagate changes the input graph (the nodes' deltas and
\* orders, the edges); the node copies start from delta 0 and order 0; the
\* call returns the input's edge list, and the nodes it returns are those
\* it returns for the same graph without deltas.
C27_InputUntouched ==
    /\ [][graph' = graph]_vars
    /\ [](pc = "start" =>
            \A k \in 1..Len(nodeMap) : nodeMap[k].v.delta = 0 /\ nodeMap[k].v.order = 0)
    /\ [](pc = "done" =>
            /\ EngineResult.graph.edges = graph.edges
            /\ EngineResult.graph.nodes =
                  propagate(WithoutDeltas(graph), shocks, cfg).graph.nodes)

\* A call on a graph whose nodes already had deltas has returned, and a
\* node that had a delta has got another one.
C27_Witness ==
    /\ pc = "done"
    /\ Len(steps) >= 2
    /\ \E i \in 1..Len(graph.nodes) :
          /\ graph.nodes[i].delta # 0
          /\ NodeOf(nodeMap, graph.nodes[i].id).delta # 0
          /\ NodeOf(nodeMap, graph.nodes[i].id).delta # graph.nodes[i].delta

----------------------------------------------------------------------------
(* Overrides and the numbers of a run *)

\* The effect lists and the drivers the handler derives from a result.
Derived(result) ==
    [firstOrderEffects |-> extractFirstOrderEffects(result.graph, result.nodeOrders),
     downstreamEffects |-> extractDownstreamEffects(result.graph, result.nodeOrders),
     reboundEffects |-> extractReboundEffects(result.graph, result.nodeOrders, result.totals),
     topDrivers |-> identifyTopDrivers(result.graph, result.totals, 5)]

----------------------------------------------------------------------------
(* The effect lists together *)

\* How many entries of an effect list name the node.
Entries(list, id) == Cardinality({k \in 1..Len(list) : list[k].nodeId = id})

----------------------------------------------------------------------------
(* The lookup maps and the graph *)

\* C30: after every step and at return the keys of nodeDeltas and of
\* nodeOrders are ids of graph nodes, the maps hold each such node's delta
\* and order, and a node that is in neither map has delta 0 and order 0.
C30_LookupMapsAgree ==
    /\ \A i \in 1..Len(nodeDeltas) :
          /\ nodeDeltas[i].k \in NodeIds(graph)
          /\ nodeDeltas[i].v = NodeOf(nodeMap, nodeDeltas[i].k).delta
    /\ \A i \in 1..Len(nodeOrders) :
          /\ nodeOrders[i].k \in NodeIds(graph)
          /\ nodeOrders[i].v = NodeOf(nodeMap, nodeOrders[i].k).order
    /\ \A k \in 1..Len(nodeMap) :
          /\ ~MapHas(nodeDeltas, nodeMap[k].k) => nodeMap[k].v.delta = 0
          /\ ~MapHas(nodeOrders, nodeMap[k].k) => nodeMap[k].v.order = 0

====
